---- MODULE Spec2Model ----
(***************************************************************************)
(* Model of the ULogger worker runtime.                                    *)
(*                                                                         *)
(*   - the worker state machine shared by the five worker variants        *)
(*     (backend/app/loggers/*/worker.py): start / stop / join / close and *)
(*     the run-loop thread, one step per blocking point of the loop;      *)
(*   - the runtime manager (backend/app/loggers/manager.py);              *)
(*   - the mbox counter reconciliation (backend/app/loggers/mbox/worker). *)
(*                                                                         *)
(* Three specifications share the variables:                               *)
(*   Spec     one worker object driven directly by concurrent callers     *)
(*   SpecMgr  the registry of workers driven through the manager          *)
(*   SpecMbox the reconciliation ticks of one mbox worker                 *)
(***************************************************************************)
EXTENDS Integers, Sequences, FiniteSets, TLC

\* ------------------------------------------------------------------ bounds
MaxWorkers == 2
NCallers == 2
MaxRuns == 2
MaxIds == 2
MaxCalls == 2
MaxTotal == 1
MaxTime == 2
MaxEvents == 3
MaxTicks == 2
MaxLen == 5

\* --------------------------------------------------------------- constants
Kinds == {"easy_serial", "mbox", "mbox_counter", "modbus_rtu", "modbus_tcp"}
WorkerState == {"CREATED", "RUNNING", "STOPPING", "STOPPED", "ERROR"}
WorkerObjs == 1..MaxWorkers
Callers == 1..NCallers
Ids == 1..MaxIds
\* the worker object of the single-worker specification
W1 == CHOOSE w \in WorkerObjs : \A v \in WorkerObjs : w <= v
\* config.id is None (LoggerConnectionConfig.id: Optional[int] = None)
NoId == 0
\* self._workers.get(id) is None
NoWorker == 0

\* Optional[...] fields: None is the empty sequence, a value v is <<v>>
None == << >>
Some(v) == <<v>>

\* the counter connections and their devices: the configured ones (1) and
\* one other of each
CounterConns == {1, 2}
DeviceIds == {1, 2}
\* what the provider is asked for: (counter_conn_id, device_id)
CounterKeys == CounterConns \X DeviceIds

\* the Modbus configuration followed: two slaves, the names of their
\* variables in polling order, the configured default of each variable
\* (None unless set) and the values a register read can decode to
PSlaves == << <<"a">>, <<"b">> >>
PVarNames == {"a", "b"}
PDefault == [n \in PVarNames |-> IF n = "b" THEN Some(0) ELSE None]
PValues == {1, 2}
\* the counters of _metrics the model follows; errors_total is incremented
\* by every _set_error, which also appends to the error buffer
MetricNames == {"frames_total", "parse_ok_total", "parse_fail_total",
                "packs_total", "packs_clean_total", "packs_miss_total",
                "counter_increments_total", "counter_confirm_total",
                "db_writes_total", "db_write_fail_total", "errors_total",
                "timeouts_total", "variables_ok_total",
                "variables_fail_total"}
\* the timestamps of _metrics the model follows
TimeMetricNames == {"last_db_error_at"}

\* the mbox configurations: LoggerConnectionConfig.enabled, whether a DB
\* writer was handed to the worker, the query template ("ok" uses variables
\* every record has, "pack_vars" variables only a parsed pack has, "bad" is
\* malformed, "none" is None) and the MboxConfig counter fields
MboxConfigs ==
  { [enabled |-> TRUE, db_writer |-> TRUE, query_template |-> "ok",
     ext_counter |-> TRUE, counter_connection_id |-> 1,
     counter_device_id |-> 1,
     miss_insert_limit |-> 1, miss_strategy |-> "last",
     counter_miss_timeout |-> 2, counter_clean_timeout |-> 1],
    [enabled |-> TRUE, db_writer |-> TRUE, query_template |-> "pack_vars",
     ext_counter |-> TRUE, counter_connection_id |-> 1,
     counter_device_id |-> 1,
     miss_insert_limit |-> 2, miss_strategy |-> "default",
     counter_miss_timeout |-> 1, counter_clean_timeout |-> 2],
    [enabled |-> TRUE, db_writer |-> TRUE, query_template |-> "bad",
     ext_counter |-> TRUE, counter_connection_id |-> 1,
     counter_device_id |-> 1,
     miss_insert_limit |-> 0, miss_strategy |-> "last",
     counter_miss_timeout |-> 1, counter_clean_timeout |-> 1],
    [enabled |-> FALSE, db_writer |-> TRUE, query_template |-> "none",
     ext_counter |-> TRUE, counter_connection_id |-> 1,
     counter_device_id |-> 1,
     miss_insert_limit |-> 1, miss_strategy |-> "last",
     counter_miss_timeout |-> 1, counter_clean_timeout |-> 1],
    [enabled |-> TRUE, db_writer |-> FALSE, query_template |-> "ok",
     ext_counter |-> FALSE, counter_connection_id |-> 1,
     counter_device_id |-> 1,
     miss_insert_limit |-> 1, miss_strategy |-> "default",
     counter_miss_timeout |-> 2, counter_clean_timeout |-> 1] }

mcfg0 == CHOOSE m \in MboxConfigs : ~m.ext_counter

\* the configs handed to register_connection: the connection type, whether
\* the type's sub-config is present, the autoconnect flag of its port and
\* whether the writer factory returns a writer for it
Configs ==
  { [type |-> "easy_serial", sub |-> TRUE, ac |-> TRUE, db |-> TRUE],
    [type |-> "mbox", sub |-> TRUE, ac |-> FALSE, db |-> FALSE],
    [type |-> "modbus_rtu", sub |-> TRUE, ac |-> TRUE, db |-> TRUE],
    [type |-> "mbox_counter", sub |-> FALSE, ac |-> TRUE, db |-> FALSE] }

\* STX = 0x02, ETX = 0x03, ord("$")
STX == 2
ETX == 3
DOLLAR == 36
\* PREAMBLE = 0x27 of the counter protocol
PREAMBLE == 39
\* port.timeout of the counter connection, in clock ticks
PTimeout == 1
\* the byte values received: the three markers and a line feed
Bytes == {STX, ETX, DOLLAR, 10}

\* the framers followed: MboxFramer() and EasySerialFramer(preamble,
\* terminator) without a preamble, with a preamble of one byte, with the
\* preamble and terminator of two bytes of the tests, and with a preamble
\* that overlaps itself
FramerConfigs ==
  { [cls |-> "mbox", preamble |-> None, terminator |-> <<ETX>>],
    [cls |-> "easy_serial", preamble |-> None, terminator |-> <<10>>],
    [cls |-> "easy_serial", preamble |-> Some(<<STX>>),
     terminator |-> <<10>>],
    [cls |-> "easy_serial", preamble |-> Some(<<STX, DOLLAR>>),
     terminator |-> <<10, ETX>>],
    [cls |-> "easy_serial", preamble |-> Some(<<STX, STX>>),
     terminator |-> <<ETX>>] }

\* the two framer objects: one is fed the two parts, one the whole string
Framers == {"split", "whole"}

\* no update_connection request has been served by the caller
NoPut ==
  [stage |-> "idle", id |-> NoId, cfg |-> CHOOSE g \in Configs : ~g.sub,
   auto |-> FALSE, prev |-> "None", old |-> NoWorker, new |-> NoWorker]

VARIABLES
  kind,          \* worker object -> its variant, "unalloc" before construction
  autoconnect,   \* worker object -> port.autoconnect / host.autoconnect
  state,         \* BaseConnectionWorker._state
  stop_event,    \* worker._stop_event
  pc,            \* worker._thread and the position of the run loop
  device,        \* worker._serial / worker._client is open
  writer,        \* worker._db_writer: "none", "open", "closed"
  runs_total,    \* _metrics["runs_total"]
  thread_lock,   \* worker._thread_lock: the caller holding it, 0 when free
  failed,        \* the current run went through the top-level except
  open_exit,     \* the current run left the loop on a failed open
  got_stop,      \* stop() has been called on the worker object
  workers,       \* ConnectionRuntimeManager._workers: id -> worker object
  cpc,           \* caller -> position inside the call it is executing
  cw,            \* caller -> worker object of the call in progress (W1 outside)
  ret,           \* outcome of the last completed call
  ret_w,         \* worker object returned by the last register_connection
  snap,          \* caller -> the list `workers` of its shutdown_all
  todo,          \* caller -> workers left in the current for-loop of it
  ncalls,        \* number of manager calls made so far
  script,        \* which prefix of start;stop;join has been run, alone
  seq_only,      \* no two manager calls overlapped, no shutdown join timed out
  mcfg,          \* the mbox worker's LoggerConnectionConfig / MboxConfig
  mpc,           \* position of the mbox run loop inside one iteration
  clock,         \* time.time()
  now,           \* the local `now` of the current loop iteration
  totals,        \* (counter connection, device_id) -> total_count
  counter_last_total,  \* MboxConnectionWorker._counter_last_total
  pending_pack_ts,     \* MboxConnectionWorker._pending_pack_ts
  miss_deadline_ts,    \* MboxConnectionWorker._miss_deadline_ts
  pending_miss,        \* MboxConnectionWorker._pending_miss
  last_good_vars,      \* MboxConnectionWorker._last_good_vars
  metrics,       \* the mbox worker's _metrics counters
  db_log,        \* the records the DB writer has accepted, in order
  nevents,       \* counter publications, label frames and polls so far
  values,        \* the Modbus worker's _values: variable name -> last value
  chunk,         \* frames of the current read left in the for-loop
  put,           \* caller -> the update or restart request it is serving
  fcfg,          \* the framer under test: its class, preamble, terminator
  fdata,         \* the byte string received
  fcut,          \* the length of its first part a
  fbuf,          \* framer -> its _buf
  fout,          \* framer -> the frames its feed() calls returned, in order
  fpos,          \* framer -> how many bytes of fdata it has been fed
  fdone,         \* how many of feed(a), feed(b), feed(data) have returned;
                 \* on a stream, how many frames the for-loop has handled
  polling,       \* the device _poll_once is at, request sent, its deadline
  store,         \* the connections of the settings file, in list order
  sresult,       \* what the last call of the settings manager returned
  transformer,   \* the MboxTransformer: its config, _last_adj_r_weight, and
                 \* the record and the result of its last transform()
  qt,            \* a query template, its compilation, and the compilation
                 \* of the SQL that came out
  upsert         \* caller -> the upsert_connection call it is inside: the
                 \* connection passed and the connections it has loaded

wvars == <<kind, autoconnect, state, stop_event, pc, device, writer,
           runs_total, thread_lock, failed, open_exit, got_stop>>
cvars == <<cpc, cw, ret>>
mvars == <<workers, ret_w, snap, todo, ncalls>>
monvars == <<script, seq_only>>
bvars == <<mcfg, mpc, clock, now, totals, counter_last_total,
           pending_pack_ts, miss_deadline_ts, pending_miss, last_good_vars,
           metrics, db_log, nevents>>
dvars == <<values, chunk>>
\* the variables the lifecycle, manager and reconciliation actions never touch
avars == <<put>>
fvars == <<fcfg, fdata, fcut, fbuf, fout, fpos, fdone>>
\* the variables the data path of a tick never touches
pvars == <<polling>>
svars == <<store, sresult>>
tvars == <<transformer>>
qvars == <<qt>>
\* the settings store, the transformer and the query template
uvars == <<upsert>>
ovars == <<svars, tvars, qvars, uvars>>
yvars == <<avars, fvars, pvars, ovars>>
xvars == <<dvars, yvars>>
vars == <<kind, autoconnect, state, stop_event, pc, device, writer,
          runs_total, thread_lock, failed, open_exit, got_stop, workers,
          cpc, cw, ret, ret_w, snap, todo, ncalls, script, seq_only,
          mcfg, mpc, clock, now, totals, counter_last_total,
          pending_pack_ts, miss_deadline_ts, pending_miss, last_good_vars,
          metrics, db_log, nevents,
          values, chunk, put, fcfg, fdata, fcut, fbuf, fout, fpos,
          fdone, polling, store, sresult, transformer, qt, upsert>>

\* ----------------------------------------------------------------- helpers
\* threading.Thread.is_alive(): started and not finished
AlivePcs == {"loop", "conn", "backoff", "tick", "frames", "wait", "exit",
             "except", "finally", "fix"}

is_alive(w) == pc[w] \in AlivePcs

\* the variants that read a serial port through pyserial
SerialKinds == {"easy_serial", "mbox", "mbox_counter"}

\* the variants whose loop waits poll_interval after each tick
PollKinds == {"mbox_counter", "modbus_rtu", "modbus_tcp"}

\* no other caller is inside a call
Alone(c) == \A d \in Callers \ {c} : cpc[d] = "idle"

\* ------------------------------------------------------------ worker API
\* start() without the idempotence checks
start_check_noguard(c, w) ==
  /\ cpc[c] \in {"idle", "start_enter"}
  /\ kind[w] # "unalloc"
  /\ thread_lock[w] = 0
  /\ runs_total[w] < MaxRuns
  /\ cpc' = [cpc EXCEPT ![c] = "start_create"]
  /\ cw' = [cw EXCEPT ![c] = w]
  /\ thread_lock' = [thread_lock EXCEPT ![w] = c]
  /\ UNCHANGED <<kind, autoconnect, state, stop_event, pc, device, writer,
                 runs_total, failed, open_exit, got_stop, ret, mvars>>

\* start() that looks at the state only, not at the thread
start_check_state_only(c, w) ==
  /\ cpc[c] \in {"idle", "start_enter"}
  /\ kind[w] # "unalloc"
  /\ thread_lock[w] = 0
  /\ IF state[w] = "RUNNING"
       THEN /\ ret' = "start_noop"
            /\ cpc' = [cpc EXCEPT ![c] = "idle"]
            /\ cw' = [cw EXCEPT ![c] = W1]
            /\ UNCHANGED thread_lock
       ELSE /\ runs_total[w] < MaxRuns
            /\ cpc' = [cpc EXCEPT ![c] = "start_create"]
            /\ cw' = [cw EXCEPT ![c] = w]
            /\ thread_lock' = [thread_lock EXCEPT ![w] = c]
            /\ UNCHANGED ret
  /\ UNCHANGED <<kind, autoconnect, state, stop_event, pc, device, writer,
                 runs_total, failed, open_exit, got_stop, mvars>>

\* start(): with self._thread_lock: the two idempotence checks
start_check(c, w) ==
  /\ cpc[c] \in {"idle", "start_enter"}
  /\ kind[w] # "unalloc"
  /\ thread_lock[w] = 0
  /\ IF state[w] = "RUNNING" \/ is_alive(w)
       THEN /\ ret' = "start_noop"
            /\ cpc' = [cpc EXCEPT ![c] = "idle"]
            /\ cw' = [cw EXCEPT ![c] = W1]
            /\ UNCHANGED thread_lock
       ELSE /\ runs_total[w] < MaxRuns
            /\ cpc' = [cpc EXCEPT ![c] = "start_create"]
            /\ cw' = [cw EXCEPT ![c] = w]
            /\ thread_lock' = [thread_lock EXCEPT ![w] = c]
            /\ UNCHANGED ret
  /\ UNCHANGED <<kind, autoconnect, state, stop_event, pc, device, writer,
                 runs_total, failed, open_exit, got_stop, mvars>>

\* start(): _stop_event.clear(); Thread(target=_run_loop); _set_state(RUNNING)
start_create(c) ==
  /\ cpc[c] = "start_create"
  /\ stop_event' = [stop_event EXCEPT ![cw[c]] = FALSE]
  /\ pc' = [pc EXCEPT ![cw[c]] = "new"]
  /\ state' = [state EXCEPT ![cw[c]] = "RUNNING"]
  /\ failed' = [failed EXCEPT ![cw[c]] = FALSE]
  /\ open_exit' = [open_exit EXCEPT ![cw[c]] = FALSE]
  /\ cpc' = [cpc EXCEPT ![c] = "start_run"]
  /\ UNCHANGED <<kind, autoconnect, device, writer, runs_total, thread_lock,
                 got_stop, cw, ret, mvars>>

\* start(): _metric_inc("runs_total"); self._thread.start(); lock released
start_run(c) ==
  /\ cpc[c] = "start_run"
  /\ runs_total' = [runs_total EXCEPT ![cw[c]] = @ + 1]
  /\ pc' = [pc EXCEPT ![cw[c]] = "loop"]
  /\ thread_lock' = [thread_lock EXCEPT ![cw[c]] = 0]
  /\ cpc' = [cpc EXCEPT ![c] = "idle"]
  /\ ret' = "started"
  /\ cw' = [cw EXCEPT ![c] = W1]
  /\ UNCHANGED <<kind, autoconnect, state, stop_event, device, writer,
                 failed, open_exit, got_stop, mvars>>

\* stop(): self._set_state(WorkerState.STOPPING)
stop_state_effect(w) ==
  /\ state' = [state EXCEPT ![w] = "STOPPING"]
  /\ got_stop' = [got_stop EXCEPT ![w] = TRUE]

stop_set_state(c, w) ==
  /\ cpc[c] \in {"idle", "stop_enter"}
  /\ kind[w] # "unalloc"
  /\ stop_state_effect(w)
  /\ cpc' = [cpc EXCEPT ![c] = "stop_event"]
  /\ cw' = [cw EXCEPT ![c] = w]
  /\ UNCHANGED <<kind, autoconnect, stop_event, pc, device, writer,
                 runs_total, thread_lock, failed, open_exit, ret, mvars>>

\* stop(): self._stop_event.set(); modbus_rtu goes on to _close_client()
stop_set_event(c) ==
  /\ cpc[c] = "stop_event"
  /\ stop_event' = [stop_event EXCEPT ![cw[c]] = TRUE]
  /\ IF kind[cw[c]] = "modbus_rtu"
       THEN /\ cpc' = [cpc EXCEPT ![c] = "stop_close"]
            /\ UNCHANGED <<ret, cw>>
       ELSE /\ cpc' = [cpc EXCEPT ![c] = "idle"]
            /\ ret' = "stopped"
            /\ cw' = [cw EXCEPT ![c] = W1]
  /\ UNCHANGED <<kind, autoconnect, state, pc, device, writer, runs_total,
                 thread_lock, failed, open_exit, got_stop, mvars>>

\* ModbusRtuConnectionWorker.stop(): self._close_client()
stop_close_client(c) ==
  /\ cpc[c] = "stop_close"
  /\ device' = [device EXCEPT ![cw[c]] = FALSE]
  /\ cpc' = [cpc EXCEPT ![c] = "idle"]
  /\ ret' = "stopped"
  /\ cw' = [cw EXCEPT ![c] = W1]
  /\ UNCHANGED <<kind, autoconnect, state, stop_event, pc, writer,
                 runs_total, thread_lock, failed, open_exit, got_stop, mvars>>

\* join(timeout): returns at once without a thread, when the thread has
\* finished, or when the timeout elapses; Thread.join() raises on a thread
\* that start() has created and not yet started
join(c, w) ==
  /\ cpc[c] \in {"idle", "join_enter"}
  /\ kind[w] # "unalloc"
  /\ \/ /\ pc[w] \in {"none", "done"}
        /\ ret' = "joined"
     \/ /\ is_alive(w)
        /\ ret' = "join_timeout"
     \/ /\ pc[w] = "new"
        /\ ret' = "join_error"
  /\ cpc' = [cpc EXCEPT ![c] = "idle"]
  /\ cw' = [cw EXCEPT ![c] = W1]
  /\ UNCHANGED <<wvars, mvars>>

\* close(): _close_serial() / _close_client(), then self._db_writer.close()
\* (MboxCounterConnectionWorker has no DB writer)
close_effect(w) ==
  /\ device' = [device EXCEPT ![w] = FALSE]
  /\ writer' = [writer EXCEPT ![w] = IF @ = "none" THEN "none" ELSE "closed"]

close(c, w) ==
  /\ cpc[c] = "idle"
  /\ kind[w] # "unalloc"
  /\ close_effect(w)
  /\ ret' = "closed"
  /\ UNCHANGED <<kind, autoconnect, state, stop_event, pc, runs_total,
                 thread_lock, failed, open_exit, got_stop, cpc, cw, mvars>>

\* ------------------------------------------------------- run-loop thread
\* while not self._stop_event.is_set():
loop_test(w) ==
  /\ pc[w] = "loop"
  /\ pc' = [pc EXCEPT ![w] = IF stop_event[w] THEN "exit" ELSE "conn"]
  /\ UNCHANGED <<kind, autoconnect, state, stop_event, device, writer,
                 runs_total, thread_lock, failed, open_exit, got_stop,
                 cvars, mvars>>

\* the device check and the open attempt.  In the mbox loop the two
\* reconciliation ticks run first; _insert_miss_pack calls build_query outside
\* any try, so they can raise into the top-level handler.  serial.Serial()
\* raises ValueError on bad port parameters, which _open_serial does not
\* catch; both Modbus _open_client catch every Exception.
loop_conn(w) ==
  /\ pc[w] = "conn"
  /\ \/ /\ kind[w] = "mbox"
        /\ pc' = [pc EXCEPT ![w] = "except"]
        /\ UNCHANGED <<state, device, open_exit>>
     \/ /\ device[w]
        /\ pc' = [pc EXCEPT ![w] = "tick"]
        /\ UNCHANGED <<state, device, open_exit>>
     \/ /\ ~device[w]
        /\ \/ /\ device' = [device EXCEPT ![w] = TRUE]
              /\ pc' = [pc EXCEPT ![w] = "tick"]
              /\ UNCHANGED <<state, open_exit>>
           \/ /\ autoconnect[w]
              /\ pc' = [pc EXCEPT ![w] = "backoff"]
              /\ UNCHANGED <<state, device, open_exit>>
           \/ /\ ~autoconnect[w]
              /\ state' = [state EXCEPT ![w] =
                             IF kind[w] = "easy_serial" THEN "ERROR" ELSE @]
              /\ open_exit' = [open_exit EXCEPT ![w] = TRUE]
              /\ pc' = [pc EXCEPT ![w] = "exit"]
              /\ UNCHANGED device
           \/ /\ kind[w] \in SerialKinds
              /\ pc' = [pc EXCEPT ![w] = "except"]
              /\ UNCHANGED <<state, device, open_exit>>
  /\ UNCHANGED <<kind, autoconnect, stop_event, writer, runs_total,
                 thread_lock, failed, got_stop, cvars, mvars>>

\* the reconnect backoff: time.sleep(_RECONNECT_INTERVAL) in easy_serial,
\* self._stop_event.wait(_RECONNECT_INTERVAL) in the other variants
loop_backoff(w) ==
  /\ pc[w] = "backoff"
  /\ pc' = [pc EXCEPT ![w] =
              IF kind[w] # "easy_serial" /\ stop_event[w]
                THEN "exit" ELSE "loop"]
  /\ UNCHANGED <<kind, autoconnect, state, stop_event, device, writer,
                 runs_total, thread_lock, failed, open_exit, got_stop,
                 cvars, mvars>>

\* one protocol tick: read and process.  _read_serial catches
\* SerialException and closes the port; anything else raised outside the
\* per-frame / per-device try reaches the top-level handler.  The Modbus
\* loops wrap the whole poll in try/except Exception.
loop_tick(w) ==
  /\ pc[w] = "tick"
  /\ \/ /\ pc' = [pc EXCEPT ![w] =
                    IF kind[w] \in PollKinds THEN "wait" ELSE "loop"]
        /\ UNCHANGED device
     \/ /\ kind[w] \in SerialKinds
        /\ device[w]
        /\ device' = [device EXCEPT ![w] = FALSE]
        /\ pc' = [pc EXCEPT ![w] =
                    IF kind[w] \in PollKinds THEN "wait" ELSE "loop"]
     \/ /\ kind[w] \in SerialKinds
        /\ pc' = [pc EXCEPT ![w] = "except"]
        /\ UNCHANGED device
  /\ UNCHANGED <<kind, autoconnect, state, stop_event, writer, runs_total,
                 thread_lock, failed, open_exit, got_stop, cvars, mvars>>

\* if self._stop_event.wait(poll_interval): break
loop_wait(w) ==
  /\ pc[w] = "wait"
  /\ pc' = [pc EXCEPT ![w] = IF stop_event[w] THEN "exit" ELSE "loop"]
  /\ UNCHANGED <<kind, autoconnect, state, stop_event, device, writer,
                 runs_total, thread_lock, failed, open_exit, got_stop,
                 cvars, mvars>>

\* after the while loop: self._set_state(WorkerState.STOPPED)
loop_exit(w) ==
  /\ pc[w] = "exit"
  /\ state' = [state EXCEPT ![w] = "STOPPED"]
  /\ pc' = [pc EXCEPT ![w] = "finally"]
  /\ UNCHANGED <<kind, autoconnect, stop_event, device, writer, runs_total,
                 thread_lock, failed, open_exit, got_stop, cvars, mvars>>

\* except Exception: self._set_error(str(exc)); self._set_state(ERROR)
loop_except(w) ==
  /\ pc[w] = "except"
  /\ state' = [state EXCEPT ![w] = "ERROR"]
  /\ failed' = [failed EXCEPT ![w] = TRUE]
  /\ pc' = [pc EXCEPT ![w] = "finally"]
  /\ UNCHANGED <<kind, autoconnect, stop_event, device, writer, runs_total,
                 thread_lock, open_exit, got_stop, cvars, mvars>>

\* finally: easy_serial calls self._close_serial(), the others self.close()
loop_finally(w) ==
  /\ pc[w] = "finally"
  /\ IF kind[w] = "easy_serial"
       THEN /\ device' = [device EXCEPT ![w] = FALSE]
            /\ UNCHANGED writer
       ELSE close_effect(w)
  /\ pc' = [pc EXCEPT ![w] = "fix"]
  /\ UNCHANGED <<kind, autoconnect, state, stop_event, runs_total,
                 thread_lock, failed, open_exit, got_stop, cvars, mvars>>

\* finally: if self.state not in (STOPPED, ERROR): self._set_state(STOPPED)
loop_fix(w) ==
  /\ pc[w] = "fix"
  /\ state' = [state EXCEPT ![w] =
                 IF @ \in {"STOPPED", "ERROR"} THEN @ ELSE "STOPPED"]
  /\ pc' = [pc EXCEPT ![w] = "done"]
  /\ UNCHANGED <<kind, autoconnect, stop_event, device, writer, runs_total,
                 thread_lock, failed, open_exit, got_stop, cvars, mvars>>

\* ------------------------------------------------------------------- Spec
\* what the variant's __init__ stores: the variant, the autoconnect flag of
\* its port / host settings and the DB writer it was given (the counter
\* worker takes none)
NewWorker(k, ac, wr) ==
  [kind |-> k, autoconnect |-> ac,
   writer |-> IF k = "mbox_counter" THEN "none" ELSE wr]

\* no caller is inside upsert_connection
NoUpsert ==
  [stage |-> "idle", connection |-> [id |-> NoId, name |-> "n1"],
   create |-> FALSE, connections |-> << >>]

InitUpsertIdle == upsert = [c \in Callers |-> NoUpsert]

\* no template is being compiled
InitTemplateIdle == qt = [template |-> << >>, once |-> << >>, twice |-> << >>]

\* a transformer of the default configuration that has transformed nothing
InitTransformerIdle ==
  transformer = [cfg |-> [tare |-> 0, treat_zero_as_error |-> TRUE,
                          treat_duplicate_as_error |-> TRUE],
                 last |-> None, rec |-> None, result |-> None]

\* the settings file holds no connection and no call has returned
InitStoreEmpty == store = << >> /\ sresult = "none"

\* _poll_once is not running
InitPollIdle ==
  polling = [dev |-> 0, sent |-> FALSE, deadline |-> 0,
             frame |-> [defect |-> "nothing", serial |-> 0, total |-> 0]]

\* no update_connection request is in progress
InitPutIdle == put = [c \in Callers |-> NoPut]

\* no framer is followed
InitFramerIdle ==
  /\ fcfg = CHOOSE g \in FramerConfigs : g.cls = "mbox"
  /\ fdata = << >>
  /\ fcut = 0
  /\ fbuf = [f \in Framers |-> << >>]
  /\ fout = [f \in Framers |-> << >>]
  /\ fpos = [f \in Framers |-> 0]
  /\ fdone = 0

\* BaseConnectionWorker.__init__ for every object of the pool
InitObjects ==
  /\ state = [w \in WorkerObjs |-> "CREATED"]
  /\ stop_event = [w \in WorkerObjs |-> FALSE]
  /\ pc = [w \in WorkerObjs |-> "none"]
  /\ device = [w \in WorkerObjs |-> FALSE]
  /\ runs_total = [w \in WorkerObjs |-> 0]
  /\ thread_lock = [w \in WorkerObjs |-> 0]
  /\ failed = [w \in WorkerObjs |-> FALSE]
  /\ open_exit = [w \in WorkerObjs |-> FALSE]
  /\ got_stop = [w \in WorkerObjs |-> FALSE]

\* ModbusTcpConnectionWorker.__init__: self._values = {}; no read yet
InitValues ==
  /\ values = [n \in PVarNames |-> None]
  /\ chunk = 0

InitCallers ==
  /\ cpc = [c \in Callers |-> "idle"]
  /\ cw = [c \in Callers |-> W1]
  /\ ret = "none"
  /\ ret_w = NoWorker
  /\ snap = [c \in Callers |-> {}]
  /\ todo = [c \in Callers |-> {}]
  /\ ncalls = 0
  /\ script = "init"
  /\ seq_only = TRUE

\* MboxConnectionWorker.__init__: the coordination state and the metrics
InitCoordination ==
  /\ clock = 0
  /\ now = 0
  /\ totals = [k \in CounterKeys |-> None]
  /\ counter_last_total = None
  /\ pending_pack_ts = None
  /\ miss_deadline_ts = None
  /\ pending_miss = 0
  /\ last_good_vars = None
  /\ metrics = [n \in MetricNames \cup TimeMetricNames |->
                  IF n \in MetricNames THEN 0 ELSE None]
  /\ db_log = << >>
  /\ nevents = 0

\* no mbox run loop is followed
InitMboxIdle ==
  /\ mcfg = mcfg0
  /\ mpc = "off"
  /\ InitCoordination

Init ==
  /\ \E k \in Kinds, ac \in BOOLEAN, wr \in {"none", "open"} :
       /\ kind = [w \in WorkerObjs |->
                    IF w = W1 THEN NewWorker(k, ac, wr).kind ELSE "unalloc"]
       /\ autoconnect = [w \in WorkerObjs |-> w = W1 /\ ac]
       /\ writer = [w \in WorkerObjs |->
                    IF w = W1 THEN NewWorker(k, ac, wr).writer ELSE "none"]
  /\ InitObjects
  /\ InitValues
  /\ workers = [i \in Ids |-> NoWorker]
  /\ InitCallers
  /\ InitMboxIdle
  /\ InitPutIdle
  /\ InitPollIdle
  /\ InitStoreEmpty
  /\ InitTransformerIdle
  /\ InitTemplateIdle
  /\ InitUpsertIdle
  /\ InitFramerIdle

\* The scenario start(); stop(); join() of test_runtime_manager_start_stop:
\* script follows the calls completed so far while each call runs with no
\* other call in flight, and is "other" for every other history.
ScriptStep(c, from, to) ==
  /\ script' = IF Alone(c) /\ script = from THEN to ELSE "other"
  /\ UNCHANGED seq_only

Next ==
  \/ \E c \in Callers :
       /\ start_check(c, W1)
       /\ ScriptStep(c, "init",
                     IF cpc'[c] = "start_create" THEN "init" ELSE "other")
       /\ UNCHANGED <<bvars, xvars>>
  \/ \E c \in Callers : start_create(c) /\ UNCHANGED <<monvars, bvars, xvars>>
  \/ \E c \in Callers : start_run(c) /\ ScriptStep(c, "init", "started")
       /\ UNCHANGED <<bvars, xvars>>
  \/ \E c \in Callers :
       stop_set_state(c, W1) /\ ScriptStep(c, "started", "started")
       /\ UNCHANGED <<bvars, xvars>>
  \/ \E c \in Callers :
       /\ stop_set_event(c)
       /\ ScriptStep(c, "started",
                     IF cpc'[c] = "idle" THEN "stopped" ELSE "started")
       /\ UNCHANGED <<bvars, xvars>>
  \/ \E c \in Callers :
       stop_close_client(c) /\ ScriptStep(c, "started", "stopped")
       /\ UNCHANGED <<bvars, xvars>>
  \/ \E c \in Callers :
       /\ join(c, W1)
       /\ ScriptStep(c, "stopped",
                     IF ret' = "joined" THEN "joined" ELSE "other")
       /\ UNCHANGED <<bvars, xvars>>
  \/ \E c \in Callers : close(c, W1) /\ ScriptStep(c, "none", "other")
       /\ UNCHANGED <<bvars, xvars>>
  \/ \E w \in WorkerObjs : loop_test(w) /\ UNCHANGED <<monvars, bvars, xvars>>
  \/ \E w \in WorkerObjs : loop_conn(w) /\ UNCHANGED <<monvars, bvars, xvars>>
  \/ \E w \in WorkerObjs : loop_backoff(w) /\ UNCHANGED <<monvars, bvars, xvars>>
  \/ \E w \in WorkerObjs : loop_tick(w) /\ UNCHANGED <<monvars, bvars, xvars>>
  \/ \E w \in WorkerObjs : loop_wait(w) /\ UNCHANGED <<monvars, bvars, xvars>>
  \/ \E w \in WorkerObjs : loop_exit(w) /\ UNCHANGED <<monvars, bvars, xvars>>
  \/ \E w \in WorkerObjs : loop_except(w) /\ UNCHANGED <<monvars, bvars, xvars>>
  \/ \E w \in WorkerObjs : loop_finally(w) /\ UNCHANGED <<monvars, bvars, xvars>>
  \/ \E w \in WorkerObjs : loop_fix(w) /\ UNCHANGED <<monvars, bvars, xvars>>

Spec == Init /\ [][Next]_vars

\* ======================================================== runtime manager
Min(S) == CHOOSE x \in S : \A y \in S : x <= y

\* the object a constructor call returns: objects are never reused
FreeObjs == {w \in WorkerObjs : kind[w] = "unalloc"}

\* _create_worker_for_config: the worker built for a config
create_worker_for_config(w, cfg) ==
  /\ kind' = [kind EXCEPT ![w] = NewWorker(cfg.type, cfg.ac, "open").kind]
  /\ autoconnect' = [autoconnect EXCEPT ![w] = cfg.ac]
  /\ writer' = [writer EXCEPT ![w] =
                  NewWorker(cfg.type, cfg.ac,
                            IF cfg.db THEN "open" ELSE "none").writer]

\* register_connection that does not look the id up before creating
register_connection_always(c, id, cfg) ==
  /\ cpc[c] = "idle"
  /\ ncalls < MaxCalls
  /\ ncalls' = ncalls + 1
  /\ IF id = NoId
       THEN /\ ret' = "ValueError_no_id"
            /\ UNCHANGED <<kind, autoconnect, writer, workers, ret_w>>
       ELSE IF ~cfg.sub
         THEN /\ ret' = "ValueError_no_subconfig"
              /\ UNCHANGED <<kind, autoconnect, writer, workers, ret_w>>
         ELSE /\ FreeObjs # {}
              /\ create_worker_for_config(Min(FreeObjs), cfg)
              /\ workers' = [workers EXCEPT ![id] = Min(FreeObjs)]
              /\ ret' = "worker_created"
              /\ ret_w' = Min(FreeObjs)
  /\ UNCHANGED <<state, stop_event, pc, device, runs_total, thread_lock,
                 failed, open_exit, got_stop, cpc, cw, snap, todo>>

\* register_connection that does not reject a config without id
register_connection_noid(c, id, cfg) ==
  /\ cpc[c] = "idle"
  /\ ncalls < MaxCalls
  /\ ncalls' = ncalls + 1
  /\ IF id # NoId /\ workers[id] # NoWorker
       THEN /\ ret' = "worker_existing"
            /\ ret_w' = workers[id]
            /\ UNCHANGED <<kind, autoconnect, writer, workers>>
       ELSE IF ~cfg.sub
         THEN /\ ret' = "ValueError_no_subconfig"
              /\ UNCHANGED <<kind, autoconnect, writer, workers, ret_w>>
         ELSE /\ FreeObjs # {}
              /\ create_worker_for_config(Min(FreeObjs), cfg)
              /\ workers' = IF id = NoId THEN workers
                            ELSE [workers EXCEPT ![id] = Min(FreeObjs)]
              /\ ret' = "worker_created"
              /\ ret_w' = Min(FreeObjs)
  /\ UNCHANGED <<state, stop_event, pc, device, runs_total, thread_lock,
                 failed, open_exit, got_stop, cpc, cw, snap, todo>>

\* register_connection(config): ValueError without id; under the lock the
\* existing worker of the id is returned, else one is created and stored
\* (a ValueError of _create_worker_for_config leaves the registry alone).
\* ret tells the two returns apart; the caller gets ret_w in both.
do_register_connection(c, id, cfg) ==
  /\ cpc[c] = "idle"
  /\ IF id = NoId
       THEN /\ ret' = "ValueError_no_id"
            /\ UNCHANGED <<kind, autoconnect, writer, workers, ret_w>>
       ELSE IF workers[id] # NoWorker
         THEN /\ ret' = "worker_existing"
              /\ ret_w' = workers[id]
              /\ UNCHANGED <<kind, autoconnect, writer, workers>>
         ELSE IF ~cfg.sub
           THEN /\ ret' = "ValueError_no_subconfig"
                /\ UNCHANGED <<kind, autoconnect, writer, workers, ret_w>>
           ELSE /\ FreeObjs # {}
                /\ create_worker_for_config(Min(FreeObjs), cfg)
                /\ workers' = [workers EXCEPT ![id] = Min(FreeObjs)]
                /\ ret' = "worker_created"
                /\ ret_w' = Min(FreeObjs)
  /\ UNCHANGED <<state, stop_event, pc, device, runs_total, thread_lock,
                 failed, open_exit, got_stop, cpc, cw, snap, todo>>

\* a call of register_connection, one of the MaxCalls calls of a behaviour
register_connection(c, id, cfg) ==
  /\ ncalls < MaxCalls
  /\ ncalls' = ncalls + 1
  /\ do_register_connection(c, id, cfg)

\* the lookup under the lock that opens start_connection, stop_connection
\* and join_connection; the worker method runs after the lock is released
do_lookup(c, id, enter, missing) ==
  /\ cpc[c] = "idle"
  /\ IF workers[id] = NoWorker
       THEN /\ ret' = missing
            /\ UNCHANGED <<cpc, cw>>
       ELSE /\ cpc' = [cpc EXCEPT ![c] = enter]
            /\ cw' = [cw EXCEPT ![c] = workers[id]]
            /\ UNCHANGED ret
  /\ UNCHANGED <<wvars, workers, ret_w, snap, todo>>

\* a call that starts with the lookup, one of the MaxCalls calls
lookup(c, id, enter, missing) ==
  /\ ncalls < MaxCalls
  /\ ncalls' = ncalls + 1
  /\ do_lookup(c, id, enter, missing)

\* start_connection(conn_id): KeyError when the id is not registered
start_connection(c, id) == lookup(c, id, "start_enter", "KeyError")

\* stop_connection(conn_id): returns when the id is not registered
stop_connection(c, id) == lookup(c, id, "stop_enter", "not_registered")

\* join_connection(conn_id, timeout): returns when the id is not registered
join_connection(c, id) == lookup(c, id, "join_enter", "not_registered")

\* unregister_connection(conn_id): self._workers.pop(conn_id, None)
do_unregister_connection(c, id) ==
  /\ cpc[c] = "idle"
  /\ workers' = [workers EXCEPT ![id] = NoWorker]
  /\ ret' = "unregistered"
  /\ UNCHANGED <<wvars, cpc, cw, ret_w, snap, todo>>

\* a call of unregister_connection, one of the MaxCalls calls
unregister_connection(c, id) ==
  /\ ncalls < MaxCalls
  /\ ncalls' = ncalls + 1
  /\ do_unregister_connection(c, id)

\* shutdown_all steps to the next worker of the current for-loop, or to the
\* next loop over the same list
sd_advance(c, nextloop) ==
  IF todo[c] \ {Min(todo[c])} = {}
    THEN /\ cpc' = [cpc EXCEPT ![c] = nextloop]
         /\ todo' = [todo EXCEPT ![c] = snap[c]]
    ELSE /\ cpc' = [cpc EXCEPT ![c] =
                      IF @ \in {"sd_stop_event", "sd_stop_close"}
                        THEN "sd_stop" ELSE @]
         /\ todo' = [todo EXCEPT ![c] = @ \ {Min(@)}]

\* shutdown_all: with self._lock: workers = list(self._workers.values())
sd_snapshot(c) ==
  /\ cpc[c] = "idle"
  /\ ncalls < MaxCalls
  /\ ncalls' = ncalls + 1
  /\ snap' = [snap EXCEPT ![c] = {workers[i] : i \in Ids} \ {NoWorker}]
  /\ todo' = [todo EXCEPT ![c] = snap'[c]]
  /\ cpc' = [cpc EXCEPT ![c] = IF snap'[c] = {} THEN "sd_clear" ELSE "sd_stop"]
  /\ UNCHANGED <<wvars, workers, cw, ret, ret_w>>

\* shutdown_all: for w in workers: w.stop()  -- _set_state(STOPPING)
sd_stop_state(c) ==
  /\ cpc[c] = "sd_stop"
  /\ stop_state_effect(Min(todo[c]))
  /\ cpc' = [cpc EXCEPT ![c] = "sd_stop_event"]
  /\ UNCHANGED <<kind, autoconnect, stop_event, pc, device, writer,
                 runs_total, thread_lock, failed, open_exit, cw, ret, mvars>>

\* shutdown_all: w.stop()  -- _stop_event.set()
sd_stop_event(c) ==
  /\ cpc[c] = "sd_stop_event"
  /\ stop_event' = [stop_event EXCEPT ![Min(todo[c])] = TRUE]
  /\ IF kind[Min(todo[c])] = "modbus_rtu"
       THEN /\ cpc' = [cpc EXCEPT ![c] = "sd_stop_close"]
            /\ UNCHANGED todo
       ELSE sd_advance(c, "sd_join")
  /\ UNCHANGED <<kind, autoconnect, state, pc, device, writer, runs_total,
                 thread_lock, failed, open_exit, got_stop, cw, ret, workers,
                 ret_w, snap, ncalls>>

\* shutdown_all: w.stop() of a modbus_rtu worker  -- _close_client()
sd_stop_close(c) ==
  /\ cpc[c] = "sd_stop_close"
  /\ device' = [device EXCEPT ![Min(todo[c])] = FALSE]
  /\ sd_advance(c, "sd_join")
  /\ UNCHANGED <<kind, autoconnect, state, stop_event, pc, writer,
                 runs_total, thread_lock, failed, open_exit, got_stop, cw,
                 ret, workers, ret_w, snap, ncalls>>

\* shutdown_all: for w in workers: w.join(timeout).  The RuntimeError of
\* joining a thread that is not started yet ends shutdown_all.
sd_join(c) ==
  /\ cpc[c] = "sd_join"
  /\ IF pc[Min(todo[c])] = "new"
       THEN /\ cpc' = [cpc EXCEPT ![c] = "idle"]
            /\ ret' = "join_error"
            /\ snap' = [snap EXCEPT ![c] = {}]
            /\ todo' = [todo EXCEPT ![c] = {}]
       ELSE /\ sd_advance(c, "sd_close")
            /\ ret' = IF is_alive(Min(todo[c])) THEN "join_timeout" ELSE ret
            /\ UNCHANGED snap
  /\ UNCHANGED <<wvars, cw, workers, ret_w, ncalls>>

\* shutdown_all: for w in workers: w.close()
sd_close(c) ==
  /\ cpc[c] = "sd_close"
  /\ close_effect(Min(todo[c]))
  /\ sd_advance(c, "sd_clear")
  /\ UNCHANGED <<kind, autoconnect, state, stop_event, pc, runs_total,
                 thread_lock, failed, open_exit, got_stop, cw, ret, workers,
                 ret_w, snap, ncalls>>

\* shutdown_all: with self._lock: self._workers.clear()
sd_clear(c) ==
  /\ cpc[c] = "sd_clear"
  /\ workers' = [i \in Ids |-> NoWorker]
  /\ cpc' = [cpc EXCEPT ![c] = "idle"]
  /\ ret' = "shutdown"
  /\ snap' = [snap EXCEPT ![c] = {}]
  /\ todo' = [todo EXCEPT ![c] = {}]
  /\ UNCHANGED <<wvars, cw, ret_w, ncalls>>

\* ---------------------------------------------------------------- SpecMgr
\* ConnectionRuntimeManager.__init__: an empty registry, no worker built
InitRegistry ==
  /\ kind = [w \in WorkerObjs |-> "unalloc"]
  /\ autoconnect = [w \in WorkerObjs |-> FALSE]
  /\ writer = [w \in WorkerObjs |-> "none"]
  /\ InitObjects
  /\ InitValues
  /\ workers = [i \in Ids |-> NoWorker]
  /\ InitCallers

InitMgr ==
  /\ InitRegistry
  /\ InitMboxIdle
  /\ InitPutIdle
  /\ InitPollIdle
  /\ InitStoreEmpty
  /\ InitTransformerIdle
  /\ InitTemplateIdle
  /\ InitUpsertIdle
  /\ InitFramerIdle

\* seq_only stays TRUE while every manager call starts with no other call
\* in flight and no join of a shutdown_all returns on its timeout
Begin(c) ==
  /\ seq_only' = (seq_only /\ Alone(c))
  /\ UNCHANGED script

NextMgr ==
  \/ \E c \in Callers, id \in Ids \cup {NoId}, cfg \in Configs :
       register_connection(c, id, cfg) /\ Begin(c)
       /\ UNCHANGED <<bvars, xvars>>
  \/ \E c \in Callers, id \in Ids : start_connection(c, id) /\ Begin(c)
       /\ UNCHANGED <<bvars, xvars>>
  \/ \E c \in Callers, id \in Ids : stop_connection(c, id) /\ Begin(c)
       /\ UNCHANGED <<bvars, xvars>>
  \/ \E c \in Callers, id \in Ids : join_connection(c, id) /\ Begin(c)
       /\ UNCHANGED <<bvars, xvars>>
  \/ \E c \in Callers, id \in Ids : unregister_connection(c, id) /\ Begin(c)
       /\ UNCHANGED <<bvars, xvars>>
  \/ \E c \in Callers : sd_snapshot(c) /\ Begin(c)
       /\ UNCHANGED <<bvars, xvars>>
  \/ \E c \in Callers : sd_stop_state(c) /\ UNCHANGED <<monvars, bvars, xvars>>
  \/ \E c \in Callers : sd_stop_event(c) /\ UNCHANGED <<monvars, bvars, xvars>>
  \/ \E c \in Callers : sd_stop_close(c) /\ UNCHANGED <<monvars, bvars, xvars>>
  \/ \E c \in Callers :
       /\ sd_join(c)
       /\ seq_only' = (seq_only /\ ret' # "join_timeout")
       /\ UNCHANGED script
       /\ UNCHANGED <<bvars, xvars>>
  \/ \E c \in Callers : sd_close(c) /\ UNCHANGED <<monvars, bvars, xvars>>
  \/ \E c \in Callers : sd_clear(c) /\ UNCHANGED <<monvars, bvars, xvars>>
  \/ \E c \in Callers :
       cpc[c] = "start_enter" /\ start_check(c, cw[c]) /\ UNCHANGED <<monvars, bvars, xvars>>
  \/ \E c \in Callers : start_create(c) /\ UNCHANGED <<monvars, bvars, xvars>>
  \/ \E c \in Callers : start_run(c) /\ UNCHANGED <<monvars, bvars, xvars>>
  \/ \E c \in Callers :
       cpc[c] = "stop_enter" /\ stop_set_state(c, cw[c]) /\ UNCHANGED <<monvars, bvars, xvars>>
  \/ \E c \in Callers : stop_set_event(c) /\ UNCHANGED <<monvars, bvars, xvars>>
  \/ \E c \in Callers : stop_close_client(c) /\ UNCHANGED <<monvars, bvars, xvars>>
  \/ \E c \in Callers :
       cpc[c] = "join_enter" /\ join(c, cw[c]) /\ UNCHANGED <<monvars, bvars, xvars>>
  \/ \E w \in WorkerObjs : loop_test(w) /\ UNCHANGED <<monvars, bvars, xvars>>
  \/ \E w \in WorkerObjs : loop_conn(w) /\ UNCHANGED <<monvars, bvars, xvars>>
  \/ \E w \in WorkerObjs : loop_backoff(w) /\ UNCHANGED <<monvars, bvars, xvars>>
  \/ \E w \in WorkerObjs : loop_tick(w) /\ UNCHANGED <<monvars, bvars, xvars>>
  \/ \E w \in WorkerObjs : loop_wait(w) /\ UNCHANGED <<monvars, bvars, xvars>>
  \/ \E w \in WorkerObjs : loop_exit(w) /\ UNCHANGED <<monvars, bvars, xvars>>
  \/ \E w \in WorkerObjs : loop_except(w) /\ UNCHANGED <<monvars, bvars, xvars>>
  \/ \E w \in WorkerObjs : loop_finally(w) /\ UNCHANGED <<monvars, bvars, xvars>>
  \/ \E w \in WorkerObjs : loop_fix(w) /\ UNCHANGED <<monvars, bvars, xvars>>

SpecMgr == InitMgr /\ [][NextMgr]_vars


\* ================================================= mbox reconciliation
metric_inc(m, name, value) == [m EXCEPT ![name] = @ + value]

\* _metric_set(name, datetime.now()...)
metric_set(m, name, value) == [m EXCEPT ![name] = value]

\* _set_error(msg): the message is appended to the error buffer and
\* errors_total is incremented; n such calls
set_error(m, n) == metric_inc(m, "errors_total", n)

\* the except branch of a DB write that leaves last_db_error_at alone
db_write_failed_nostamp(m, n, t) ==
  IF n = 0 THEN m
  ELSE set_error(metric_inc(m, "db_write_fail_total", n), n)

\* the except branch of a DB write: last_db_error_at, db_write_fail_total,
\* _set_error; n failed writes at time t (none leaves the metrics alone)
db_write_failed(m, n, t) ==
  IF n = 0 THEN m
  ELSE set_error(
         metric_inc(metric_set(m, "last_db_error_at", Some(t)),
                    "db_write_fail_total", n),
         n)

\* build_query(template, variables): raises on a malformed or missing
\* template and on a placeholder that the variables do not carry
build_query_raises(template, has_pack_vars) ==
  \/ template \in {"bad", "none"}
  \/ template = "pack_vars" /\ ~has_pack_vars

\* _read_counter_total that asks the provider for another device of the
\* configured connection
read_counter_total_other ==
  IF ~mcfg.ext_counter
    THEN None
    ELSE totals[<<mcfg.counter_connection_id,
                  CHOOSE d \in DeviceIds : d # mcfg.counter_device_id>>]

\* _read_counter_total(): None without ext_counter, else the provider's
\* answer for the configured counter device
read_counter_total ==
  IF ~mcfg.ext_counter
    THEN None
    ELSE totals[<<mcfg.counter_connection_id, mcfg.counter_device_id>>]

\* time passes
clock_tick ==
  /\ clock < MaxTime
  /\ clock' = clock + 1
  /\ UNCHANGED <<mcfg, mpc, now, totals, counter_last_total,
                 pending_pack_ts, miss_deadline_ts, pending_miss,
                 last_good_vars, metrics, db_log, nevents>>

\* the counter worker of connection k stores the total_count of a response
\* of its device d
counter_publish(k, d, v) ==
  /\ nevents < MaxEvents
  /\ nevents' = nevents + 1
  /\ totals[<<k, d>>] # Some(v)
  /\ totals' = [totals EXCEPT ![<<k, d>>] = Some(v)]
  /\ UNCHANGED <<mcfg, mpc, clock, now, counter_last_total,
                 pending_pack_ts, miss_deadline_ts, pending_miss,
                 last_good_vars, metrics, db_log>>

\* _run_loop: now = time.time()
loop_now ==
  /\ mpc = "top"
  /\ now' = clock
  /\ mpc' = "counter"
  /\ UNCHANGED <<mcfg, clock, totals, counter_last_total, pending_pack_ts,
                 miss_deadline_ts, pending_miss, last_good_vars, metrics,
                 db_log, nevents>>

\* _tick_counter_logic with a clean window that expires: a pack whose
\* deadline has passed is dropped, and the increment is one without a pack
tick_counter_logic_expiring ==
  /\ mpc = "counter"
  /\ mpc' = "miss"
  /\ LET total == read_counter_total IN
       IF total = None
         THEN UNCHANGED <<counter_last_total, pending_pack_ts, pending_miss,
                          miss_deadline_ts, metrics>>
       ELSE IF counter_last_total = None
         THEN /\ counter_last_total' = total
              /\ UNCHANGED <<pending_pack_ts, pending_miss, miss_deadline_ts,
                             metrics>>
       ELSE LET delta == total[1] - counter_last_total[1] IN
         IF delta <= 0
           THEN UNCHANGED <<counter_last_total, pending_pack_ts,
                            pending_miss, miss_deadline_ts, metrics>>
           ELSE /\ counter_last_total' = total
                /\ pending_pack_ts' = None
                /\ IF pending_pack_ts # None /\ now < pending_pack_ts[1]
                     THEN /\ metrics' =
                               metric_inc(
                                 metric_inc(metrics,
                                            "counter_increments_total", delta),
                                 "counter_confirm_total", 1)
                          /\ UNCHANGED <<pending_miss, miss_deadline_ts>>
                     ELSE /\ metrics' =
                               metric_inc(metrics, "counter_increments_total",
                                          delta)
                          /\ pending_miss' = pending_miss + delta
                          /\ miss_deadline_ts' =
                               Some(now + mcfg.counter_miss_timeout)
  /\ UNCHANGED <<mcfg, clock, now, totals, last_good_vars, db_log, nevents>>

\* _tick_counter_logic that takes a lower total as its new baseline
tick_counter_logic_follow ==
  /\ mpc = "counter"
  /\ mpc' = "miss"
  /\ LET total == read_counter_total IN
       IF total = None
         THEN UNCHANGED <<counter_last_total, pending_pack_ts, pending_miss,
                          miss_deadline_ts, metrics>>
       ELSE IF counter_last_total = None
         THEN /\ counter_last_total' = total
              /\ UNCHANGED <<pending_pack_ts, pending_miss, miss_deadline_ts,
                             metrics>>
       ELSE LET delta == total[1] - counter_last_total[1] IN
         IF delta <= 0
           THEN /\ counter_last_total' = total
                /\ UNCHANGED <<pending_pack_ts, pending_miss,
                               miss_deadline_ts, metrics>>
           ELSE /\ counter_last_total' = total
                /\ IF pending_pack_ts # None
                     THEN /\ pending_pack_ts' = None
                          /\ metrics' =
                               metric_inc(
                                 metric_inc(metrics,
                                            "counter_increments_total", delta),
                                 "counter_confirm_total", 1)
                          /\ UNCHANGED <<pending_miss, miss_deadline_ts>>
                     ELSE /\ metrics' =
                               metric_inc(metrics, "counter_increments_total",
                                          delta)
                          /\ pending_miss' = pending_miss + delta
                          /\ miss_deadline_ts' =
                               Some(now + mcfg.counter_miss_timeout)
                          /\ UNCHANGED pending_pack_ts
  /\ UNCHANGED <<mcfg, clock, now, totals, last_good_vars, db_log, nevents>>

\* _tick_counter_logic that treats every increment as one without a pack
tick_counter_logic_noconfirm ==
  /\ mpc = "counter"
  /\ mpc' = "miss"
  /\ LET total == read_counter_total IN
       IF total = None
         THEN UNCHANGED <<counter_last_total, pending_pack_ts, pending_miss,
                          miss_deadline_ts, metrics>>
       ELSE IF counter_last_total = None
         THEN /\ counter_last_total' = total
              /\ UNCHANGED <<pending_pack_ts, pending_miss, miss_deadline_ts,
                             metrics>>
       ELSE LET delta == total[1] - counter_last_total[1] IN
         IF delta <= 0
           THEN UNCHANGED <<counter_last_total, pending_pack_ts,
                            pending_miss, miss_deadline_ts, metrics>>
           ELSE /\ counter_last_total' = total
                /\ metrics' = metric_inc(metrics, "counter_increments_total",
                                         delta)
                /\ pending_miss' = pending_miss + delta
                /\ miss_deadline_ts' = Some(now + mcfg.counter_miss_timeout)
                /\ UNCHANGED pending_pack_ts
  /\ UNCHANGED <<mcfg, clock, now, totals, last_good_vars, db_log, nevents>>

\* _tick_counter_logic(now): the baseline, the confirmation of a pending
\* pack, the scheduling of a miss
tick_counter_logic ==
  /\ mpc = "counter"
  /\ mpc' = "miss"
  /\ LET total == read_counter_total IN
       IF total = None
         THEN UNCHANGED <<counter_last_total, pending_pack_ts, pending_miss,
                          miss_deadline_ts, metrics>>
       ELSE IF counter_last_total = None
         THEN /\ counter_last_total' = total
              /\ UNCHANGED <<pending_pack_ts, pending_miss, miss_deadline_ts,
                             metrics>>
       ELSE LET delta == total[1] - counter_last_total[1] IN
         IF delta <= 0
           THEN UNCHANGED <<counter_last_total, pending_pack_ts,
                            pending_miss, miss_deadline_ts, metrics>>
           ELSE /\ counter_last_total' = total
                /\ IF pending_pack_ts # None
                     THEN /\ pending_pack_ts' = None
                          /\ metrics' =
                               metric_inc(
                                 metric_inc(metrics,
                                            "counter_increments_total", delta),
                                 "counter_confirm_total", 1)
                          /\ UNCHANGED <<pending_miss, miss_deadline_ts>>
                     ELSE /\ metrics' =
                               metric_inc(metrics, "counter_increments_total",
                                          delta)
                          /\ pending_miss' = pending_miss + delta
                          /\ miss_deadline_ts' =
                               Some(now + mcfg.counter_miss_timeout)
                          /\ UNCHANGED pending_pack_ts
  /\ UNCHANGED <<mcfg, clock, now, totals, last_good_vars, db_log, nevents>>

\* the record of _insert_miss_pack: the last good variables under the
\* "last" strategy when there are any, else miss_default (empty by default),
\* overridden with on_error = True and error_info = miss_error_label
miss_uses_last == mcfg.miss_strategy = "last" /\ last_good_vars # None

miss_record ==
  [src |-> "miss", on_error |-> TRUE, error_info |-> "miss_error_label",
   base |-> IF miss_uses_last THEN "last" ELSE "default"]

\* n calls of _insert_miss_pack: nothing without enabled / DB writer; the
\* KeyError / ValueError of build_query leaves the run loop; each write is
\* accepted or raises inside the try
insert_miss_pack(n) ==
  IF ~mcfg.enabled \/ ~mcfg.db_writer
    THEN /\ mpc' = "read"
         /\ UNCHANGED <<metrics, db_log>>
  ELSE IF build_query_raises(mcfg.query_template, miss_uses_last)
    THEN /\ mpc' = "dead"
         /\ UNCHANGED <<metrics, db_log>>
  ELSE \E k \in 0..n :
         /\ mpc' = "read"
         /\ db_log' = db_log \o [i \in 1..k |-> miss_record]
         /\ metrics' =
              db_write_failed(
                metric_inc(
                  metric_inc(
                    metric_inc(metrics, "db_writes_total", k),
                    "packs_total", k),
                  "packs_miss_total", k),
                n - k, clock)

\* _tick_miss_insert, `for _ in range(n): self._insert_miss_pack()`: how
\* many of the n calls are made.  A call returns at once without enabled /
\* DB writer and catches a failed write; the KeyError / ValueError of its
\* build_query is caught nowhere, so the first call ends the for-loop
miss_insert_calls(n) ==
  IF ~mcfg.enabled \/ ~mcfg.db_writer
    THEN n
  ELSE IF build_query_raises(mcfg.query_template, miss_uses_last)
    THEN (IF n < 1 THEN n ELSE 1)
  ELSE n

\* _tick_miss_insert that does not wait for the deadline
tick_miss_insert_nowait ==
  /\ mpc = "miss"
  /\ IF miss_deadline_ts = None
       THEN /\ mpc' = "read"
            /\ UNCHANGED <<miss_deadline_ts, pending_miss, metrics, db_log>>
     ELSE /\ miss_deadline_ts' = None
          /\ IF pending_miss <= 0
               THEN /\ mpc' = "read"
                    /\ UNCHANGED <<pending_miss, metrics, db_log>>
               ELSE LET limit == mcfg.miss_insert_limit
                        n == IF pending_miss < (IF limit > 1 THEN limit ELSE 1)
                               THEN pending_miss
                               ELSE (IF limit > 1 THEN limit ELSE 1)
                    IN /\ pending_miss' = pending_miss - n
                       /\ insert_miss_pack(n)
  /\ UNCHANGED <<mcfg, clock, now, totals, counter_last_total,
                 pending_pack_ts, last_good_vars, nevents>>

\* _tick_miss_insert(now)
tick_miss_insert ==
  /\ mpc = "miss"
  /\ IF miss_deadline_ts = None
       THEN /\ mpc' = "read"
            /\ UNCHANGED <<miss_deadline_ts, pending_miss, metrics, db_log>>
     ELSE IF now < miss_deadline_ts[1]
       THEN /\ mpc' = "read"
            /\ UNCHANGED <<miss_deadline_ts, pending_miss, metrics, db_log>>
     ELSE /\ miss_deadline_ts' = None
          /\ IF pending_miss <= 0
               THEN /\ mpc' = "read"
                    /\ UNCHANGED <<pending_miss, metrics, db_log>>
               ELSE LET limit == mcfg.miss_insert_limit
                        n == IF pending_miss < (IF limit > 1 THEN limit ELSE 1)
                               THEN pending_miss
                               ELSE (IF limit > 1 THEN limit ELSE 1)
                    IN /\ pending_miss' = pending_miss - n
                       /\ insert_miss_pack(n)
  /\ UNCHANGED <<mcfg, clock, now, totals, counter_last_total,
                 pending_pack_ts, last_good_vars, nevents>>

\* the record a parsed and transformed label frame yields
pack_record(on_error) ==
  [src |-> "pack", on_error |-> on_error,
   error_info |-> IF on_error THEN "error_label" ELSE "", base |-> "pack"]

\* _handle_result that counts the write and not the pack
handle_result_uncounted(m, on_error, write_ok) ==
  IF ~mcfg.enabled \/ mcfg.query_template = "none" \/ ~mcfg.db_writer
    THEN /\ metrics' = m
         /\ UNCHANGED <<db_log, last_good_vars>>
  ELSE IF build_query_raises(mcfg.query_template, TRUE)
    THEN /\ metrics' = set_error(metric_inc(m, "parse_fail_total", 1), 1)
         /\ UNCHANGED <<db_log, last_good_vars>>
  ELSE IF write_ok
    THEN /\ db_log' = Append(db_log, pack_record(on_error))
         /\ last_good_vars' = Some(pack_record(on_error))
         /\ metrics' = metric_inc(m, "db_writes_total", 1)
  ELSE /\ metrics' = db_write_failed(m, 1, clock)
       /\ UNCHANGED <<db_log, last_good_vars>>

\* _handle_result(result): the effect on the metrics, the DB and
\* _last_good_vars; m is the metrics after the parse counters
handle_result(m, on_error, write_ok) ==
  IF ~mcfg.enabled \/ mcfg.query_template = "none" \/ ~mcfg.db_writer
    THEN /\ metrics' = m
         /\ UNCHANGED <<db_log, last_good_vars>>
  ELSE IF build_query_raises(mcfg.query_template, TRUE)
    THEN /\ metrics' = set_error(metric_inc(m, "parse_fail_total", 1), 1)
         /\ UNCHANGED <<db_log, last_good_vars>>
  ELSE IF write_ok
    THEN /\ db_log' = Append(db_log, pack_record(on_error))
         /\ last_good_vars' = Some(pack_record(on_error))
         /\ metrics' =
              metric_inc(
                metric_inc(
                  metric_inc(m, "db_writes_total", 1),
                  "packs_total", 1),
                "packs_clean_total", 1)
  ELSE /\ metrics' = db_write_failed(m, 1, clock)
       /\ UNCHANGED <<db_log, last_good_vars>>

\* _run_loop, one frame of the for-loop: parse_label_frame, transform,
\* the clean window, _handle_result; a failure is caught per frame
process_frame(parse_ok, on_error, write_ok) ==
  /\ mpc = "read"
  /\ nevents < MaxEvents
  /\ nevents' = nevents + 1
  /\ IF ~parse_ok
       THEN /\ metrics' =
                 set_error(
                   metric_inc(metric_inc(metrics, "frames_total", 1),
                              "parse_fail_total", 1),
                   1)
            /\ UNCHANGED <<pending_pack_ts, db_log, last_good_vars>>
       ELSE /\ pending_pack_ts' = Some(clock + mcfg.counter_clean_timeout)
            /\ handle_result(
                 metric_inc(metric_inc(metrics, "frames_total", 1),
                            "parse_ok_total", 1),
                 on_error, write_ok)
  /\ UNCHANGED <<mcfg, mpc, clock, now, totals, counter_last_total,
                 miss_deadline_ts, pending_miss>>

\* _run_loop: the read returned nothing more, or the port is not open and
\* the loop retries: back to the top of the while loop
read_done ==
  /\ mpc = "read"
  /\ mpc' = "top"
  /\ UNCHANGED <<mcfg, clock, now, totals, counter_last_total,
                 pending_pack_ts, miss_deadline_ts, pending_miss,
                 last_good_vars, metrics, db_log, nevents>>

\* --------------------------------------------------------------- SpecMbox
InitMbox ==
  /\ InitRegistry
  /\ mcfg \in MboxConfigs
  /\ mpc = "top"
  /\ InitCoordination
  /\ InitPutIdle
  /\ InitPollIdle
  /\ InitStoreEmpty
  /\ InitTransformerIdle
  /\ InitTemplateIdle
  /\ InitUpsertIdle
  /\ InitFramerIdle

NextMbox ==
  \/ clock_tick /\ UNCHANGED <<wvars, cvars, mvars, monvars, xvars>>
  \/ \E k \in CounterConns, d \in DeviceIds, v \in 0..MaxTotal :
       counter_publish(k, d, v) /\ UNCHANGED <<wvars, cvars, mvars, monvars, xvars>>
  \/ loop_now /\ UNCHANGED <<wvars, cvars, mvars, monvars, xvars>>
  \/ tick_counter_logic /\ UNCHANGED <<wvars, cvars, mvars, monvars, xvars>>
  \/ tick_miss_insert /\ UNCHANGED <<wvars, cvars, mvars, monvars, xvars>>
  \/ \E parse_ok \in BOOLEAN, on_error \in BOOLEAN, write_ok \in BOOLEAN :
       /\ process_frame(parse_ok, on_error, write_ok)
       /\ UNCHANGED <<wvars, cvars, mvars, monvars, xvars>>
  \/ read_done /\ UNCHANGED <<wvars, cvars, mvars, monvars, xvars>>

SpecMbox == InitMbox /\ [][NextMbox]_vars

\* -------------------------------------------------------------- SpecRecon
\* the reconciliation against the bound counter alone: only the counter
\* device the worker is bound to publishes, and its total can rise by more
\* than one between two iterations of the loop
BoundTotals == 0..(MaxTotal + 1)

InitRecon == InitMbox

NextRecon ==
  \/ clock_tick /\ UNCHANGED <<wvars, cvars, mvars, monvars, xvars>>
  \/ \E v \in BoundTotals :
       /\ counter_publish(mcfg.counter_connection_id,
                          mcfg.counter_device_id, v)
       /\ UNCHANGED <<wvars, cvars, mvars, monvars, xvars>>
  \/ loop_now /\ UNCHANGED <<wvars, cvars, mvars, monvars, xvars>>
  \/ tick_counter_logic /\ UNCHANGED <<wvars, cvars, mvars, monvars, xvars>>
  \/ tick_miss_insert /\ UNCHANGED <<wvars, cvars, mvars, monvars, xvars>>
  \/ \E parse_ok \in BOOLEAN, on_error \in BOOLEAN, write_ok \in BOOLEAN :
       /\ process_frame(parse_ok, on_error, write_ok)
       /\ UNCHANGED <<wvars, cvars, mvars, monvars, xvars>>
  \/ read_done /\ UNCHANGED <<wvars, cvars, mvars, monvars, xvars>>

SpecRecon == InitRecon /\ [][NextRecon]_vars

\* ================================================= the data path of a tick
\* the lifecycle variables a tick leaves alone
wrest == <<kind, autoconnect, state, stop_event, writer, runs_total,
           thread_lock, failed, open_exit, got_stop>>
\* the reconciliation variables the tick of another variant leaves alone
brest == <<mcfg, mpc, clock, now, counter_last_total, pending_pack_ts,
           miss_deadline_ts, pending_miss, last_good_vars>>

\* _read_serial() / _read_from_serial() at the top of a tick of the mbox and
\* easy-serial loops: a SerialException is logged and the port closed; any
\* other exception reaches the top-level handler; else the framer returns n
\* frames of the bytes read (easy_serial counts frames_total here)
read_serial(w, out, n) ==
  /\ pc[w] = "tick"
  /\ kind[w] \in {"easy_serial", "mbox"}
  /\ \/ /\ out = "SerialException"
        /\ nevents < MaxTicks
        /\ nevents' = nevents + 1
        /\ metrics' = set_error(metrics, 1)
        /\ device' = [device EXCEPT ![w] = FALSE]
        /\ pc' = [pc EXCEPT ![w] = "loop"]
        /\ UNCHANGED chunk
     \/ /\ out = "Exception"
        /\ pc' = [pc EXCEPT ![w] = "except"]
        /\ UNCHANGED <<metrics, device, chunk, nevents>>
     \/ /\ out = "data"
        /\ nevents + n <= MaxTicks
        /\ chunk' = n
        /\ metrics' = IF kind[w] = "easy_serial"
                        THEN metric_inc(metrics, "frames_total", n)
                        ELSE metrics
        /\ pc' = [pc EXCEPT ![w] = "frames"]
        /\ UNCHANGED <<device, nevents>>
  /\ UNCHANGED <<wrest, brest, totals, db_log, values, cvars, mvars,
                 monvars, yvars>>

\* EasySerialConnectionWorker._handle_parsed_message(parsed); m is the
\* metrics after parse_ok_total; a build_query error is caught by the
\* per-frame handler of the caller
handle_parsed_message(m, write_ok) ==
  IF ~mcfg.enabled \/ mcfg.query_template = "none" \/ ~mcfg.db_writer
    THEN /\ metrics' = m
         /\ UNCHANGED db_log
  ELSE IF build_query_raises(mcfg.query_template, TRUE)
    THEN /\ metrics' = metric_inc(set_error(m, 1), "parse_fail_total", 1)
         /\ UNCHANGED db_log
  ELSE IF write_ok
    THEN /\ db_log' = Append(db_log, [src |-> "frame"])
         /\ metrics' = metric_inc(m, "db_writes_total", 1)
  ELSE /\ metrics' = db_write_failed(m, 1, clock)
       /\ UNCHANGED db_log

\* the easy-serial for-loop, one frame: decode, parse, _handle_parsed_message
\* inside try / except Exception
frame_easy(w, parse_ok, write_ok) ==
  /\ pc[w] = "frames"
  /\ kind[w] = "easy_serial"
  /\ chunk > 0
  /\ nevents < MaxTicks
  /\ chunk' = chunk - 1
  /\ nevents' = nevents + 1
  /\ IF ~parse_ok
       THEN /\ metrics' =
                 metric_inc(set_error(metrics, 1), "parse_fail_total", 1)
            /\ UNCHANGED db_log
       ELSE handle_parsed_message(metric_inc(metrics, "parse_ok_total", 1),
                                  write_ok)
  /\ UNCHANGED <<pc, device, wrest, brest, totals, values, cvars, mvars,
                 monvars, yvars>>

\* the mbox for-loop, one frame
frame_mbox(w, parse_ok, on_error, write_ok) ==
  /\ pc[w] = "frames"
  /\ kind[w] = "mbox"
  /\ chunk > 0
  /\ nevents < MaxTicks
  /\ chunk' = chunk - 1
  /\ process_frame(parse_ok, on_error, write_ok)
  /\ UNCHANGED <<wvars, values, cvars, mvars, monvars, yvars>>

\* the for-loop over the frames of a read is exhausted: back to the while
frames_done(w) ==
  /\ pc[w] = "frames"
  /\ chunk = 0
  /\ pc' = [pc EXCEPT ![w] = "loop"]
  /\ UNCHANGED <<device, wrest, bvars, dvars, cvars, mvars, monvars, yvars>>

\* ------------------------------------------------------ the counter poll
\* the counter connection followed and its enabled devices in polling order
PolledConn == Min(CounterConns)
PolledDevices == <<1, 2>>

\* _poll_once, one device: _poll_device inside try / except Exception.
\* st = [open, metrics, totals]; out is what the port does: the request
\* write raises, a read raises (the port is closed, the deadline then
\* expires), no matching valid frame arrives, or a frame carries total out[2]
poll_device(st, d, out) ==
  IF ~st.open \/ out = <<"write_error">>
    THEN [st EXCEPT !.metrics =
                      set_error(metric_inc(@, "parse_fail_total", 1), 1)]
  ELSE IF out = <<"read_error">>
    THEN [st EXCEPT !.open = FALSE,
                    !.metrics =
                      set_error(
                        metric_inc(
                          metric_inc(set_error(@, 1), "timeouts_total", 1),
                          "parse_fail_total", 1),
                        1)]
  ELSE IF out = <<"timeout">>
    THEN [st EXCEPT !.metrics =
                      set_error(
                        metric_inc(metric_inc(@, "timeouts_total", 1),
                                   "parse_fail_total", 1),
                        1)]
  ELSE [st EXCEPT !.totals[<<PolledConn, d>>] = Some(out[2])]

RECURSIVE poll_devices(_, _, _)
poll_devices(devs, outs, st) ==
  IF devs = << >> THEN st
  ELSE poll_devices(Tail(devs), outs,
                    poll_device(st, Head(devs), outs[Head(devs)]))

PollOuts == {<<"write_error">>, <<"read_error">>, <<"timeout">>}
              \cup {<<"response", v>> : v \in 0..MaxTotal}

\* MboxCounterConnectionWorker._poll_once(): the flushing read (a
\* SerialException closes the port), then every device
counter_poll_once(w, flush_ok, outs) ==
  /\ pc[w] = "tick"
  /\ kind[w] = "mbox_counter"
  /\ nevents < MaxTicks
  /\ nevents' = nevents + 1
  /\ LET st0 == [open |-> device[w] /\ flush_ok,
                 metrics |-> IF device[w] /\ ~flush_ok
                               THEN set_error(metrics, 1) ELSE metrics,
                 totals |-> totals]
         st == poll_devices(PolledDevices, outs, st0)
     IN /\ device' = [device EXCEPT ![w] = st.open]
        /\ metrics' = st.metrics
        /\ totals' = st.totals
  /\ pc' = [pc EXCEPT ![w] = "wait"]
  /\ UNCHANGED <<wrest, brest, db_log, dvars, cvars, mvars, monvars, yvars>>

\* ------------------------------------------------------- the Modbus poll
\* _get_current_value(var) that ignores the stored values
get_current_value_default(vals, n) == PDefault[n]

\* _get_current_value(var): the last successful value, else the default
get_current_value(vals, n) == IF vals[n] # None THEN vals[n] ELSE PDefault[n]

\* _poll_slave, first loop, one variable whose read raised and went
\* uncounted
poll_variable_silent(st, n, r) ==
  IF r = None
    THEN st
    ELSE [st EXCEPT !.values[n] = r,
                    !.metrics = metric_inc(@, "variables_ok_total", 1)]

\* _poll_slave, first loop, one variable: _read_variable inside try / except
\* Exception; r is None when the read or the decoding raised
poll_variable(st, n, r) ==
  IF r = None
    THEN [st EXCEPT !.metrics =
                      set_error(metric_inc(@, "variables_fail_total", 1), 1)]
    ELSE [st EXCEPT !.values[n] = r,
                    !.metrics = metric_inc(@, "variables_ok_total", 1)]

RECURSIVE poll_variables(_, _, _)
poll_variables(vs, reads, st) ==
  IF vs = << >> THEN st
  ELSE poll_variables(Tail(vs), reads,
                      poll_variable(st, Head(vs), reads[Head(vs)]))

\* the names of a slave's variables
Names(vs) == {vs[i] : i \in DOMAIN vs}

\* _poll_slave(client, slave_cfg, payload): st = [values, metrics, payload]
poll_slave(vs, reads, st) ==
  LET st1 == poll_variables(vs, reads, st)
  IN [st1 EXCEPT !.payload =
        [n \in DOMAIN st1.payload \cup Names(vs) |->
           IF n \in Names(vs) THEN get_current_value(st1.values, n)
                              ELSE st1.payload[n]]]

RECURSIVE poll_slaves(_, _, _)
poll_slaves(slaves, reads, st) ==
  IF slaves = << >> THEN st
  ELSE poll_slaves(Tail(slaves), reads, poll_slave(Head(slaves), reads, st))

\* _handle_polled_values(payload); a build_query error is caught by the
\* per-poll handler of the run loop ("poll error")
handle_polled_values(m, payload, write_ok) ==
  IF ~mcfg.enabled \/ mcfg.query_template = "none" \/ ~mcfg.db_writer
    THEN /\ metrics' = m
         /\ UNCHANGED db_log
  ELSE IF build_query_raises(mcfg.query_template, FALSE)
    THEN /\ metrics' = set_error(m, 1)
         /\ UNCHANGED db_log
  ELSE IF write_ok
    THEN /\ db_log' = Append(db_log, [src |-> "poll", payload |-> payload])
         /\ metrics' = metric_inc(m, "db_writes_total", 1)
  ELSE /\ metrics' = db_write_failed(m, 1, clock)
       /\ UNCHANGED db_log

PollReads == [PVarNames -> {None} \cup {Some(v) : v \in PValues}]

\* the Modbus run loops, one poll: _poll_once() inside try / except
\* Exception; without a client the poll is skipped
modbus_poll_once(w, reads, write_ok) ==
  /\ pc[w] = "tick"
  /\ kind[w] \in {"modbus_rtu", "modbus_tcp"}
  /\ nevents < MaxTicks
  /\ nevents' = nevents + 1
  /\ IF ~device[w]
       THEN UNCHANGED <<values, metrics, db_log>>
       ELSE LET st == poll_slaves(PSlaves, reads,
                                  [values |-> values, metrics |-> metrics,
                                   payload |-> << >>])
            IN /\ values' = st.values
               /\ handle_polled_values(st.metrics, st.payload, write_ok)
  /\ pc' = [pc EXCEPT ![w] = "wait"]
  /\ UNCHANGED <<device, wrest, brest, totals, chunk, cvars, mvars, monvars, yvars>>

\* --------------------------------------------------------------- SpecTick
\* a worker of any variant that start() has just started, with its
\* connection config (the counter worker writes to no DB, and only the mbox
\* records carry the pack variables); no counter publishes to the mbox
\* worker, so that its two reconciliation ticks do nothing and its loop is
\* at the read
InitTick ==
  /\ \E k \in Kinds, ac \in BOOLEAN, m \in MboxConfigs :
       /\ k = "mbox_counter" => m = mcfg0
       /\ k # "mbox" => m.query_template # "pack_vars"
       /\ kind = [w \in WorkerObjs |-> IF w = W1 THEN k ELSE "unalloc"]
       /\ autoconnect = [w \in WorkerObjs |-> w = W1 /\ ac]
       /\ mcfg = m
       /\ writer = [w \in WorkerObjs |->
                      IF w = W1 /\ m.db_writer
                        THEN NewWorker(k, ac, "open").writer ELSE "none"]
  /\ state = [w \in WorkerObjs |-> IF w = W1 THEN "RUNNING" ELSE "CREATED"]
  /\ stop_event = [w \in WorkerObjs |-> FALSE]
  /\ pc = [w \in WorkerObjs |-> IF w = W1 THEN "loop" ELSE "none"]
  /\ device = [w \in WorkerObjs |-> FALSE]
  /\ runs_total = [w \in WorkerObjs |-> IF w = W1 THEN 1 ELSE 0]
  /\ thread_lock = [w \in WorkerObjs |-> 0]
  /\ failed = [w \in WorkerObjs |-> FALSE]
  /\ open_exit = [w \in WorkerObjs |-> FALSE]
  /\ got_stop = [w \in WorkerObjs |-> FALSE]
  /\ InitValues
  /\ workers = [i \in Ids |-> NoWorker]
  /\ InitCallers
  /\ mpc = "read"
  /\ InitCoordination
  /\ InitPutIdle
  /\ InitPollIdle
  /\ InitStoreEmpty
  /\ InitTransformerIdle
  /\ InitTemplateIdle
  /\ InitUpsertIdle
  /\ InitFramerIdle

NextTick ==
  \/ clock_tick /\ UNCHANGED <<wvars, cvars, mvars, monvars, xvars>>
  \/ loop_test(W1) /\ UNCHANGED <<monvars, bvars, xvars>>
  \/ loop_conn(W1) /\ UNCHANGED <<monvars, bvars, xvars>>
  \/ loop_backoff(W1) /\ UNCHANGED <<monvars, bvars, xvars>>
  \/ \E out \in {"SerialException", "Exception", "data"}, n \in 0..MaxTicks :
       read_serial(W1, out, n)
  \/ \E parse_ok \in BOOLEAN, write_ok \in BOOLEAN :
       frame_easy(W1, parse_ok, write_ok)
  \/ \E parse_ok \in BOOLEAN, on_error \in BOOLEAN, write_ok \in BOOLEAN :
       frame_mbox(W1, parse_ok, on_error, write_ok)
  \/ frames_done(W1)
  \/ \E flush_ok \in BOOLEAN, outs \in [DeviceIds -> PollOuts] :
       counter_poll_once(W1, flush_ok, outs)
  \/ \E reads \in PollReads, write_ok \in BOOLEAN :
       modbus_poll_once(W1, reads, write_ok)
  \/ loop_wait(W1) /\ UNCHANGED <<monvars, bvars, xvars>>
  \/ loop_exit(W1) /\ UNCHANGED <<monvars, bvars, xvars>>
  \/ loop_except(W1) /\ UNCHANGED <<monvars, bvars, xvars>>
  \/ loop_finally(W1) /\ UNCHANGED <<monvars, bvars, xvars>>
  \/ loop_fix(W1) /\ UNCHANGED <<monvars, bvars, xvars>>

SpecTick == InitTick /\ [][NextTick]_vars

\* -------------------------------------------------------------- SpecReuse
\* the data path of the ticks of one worker object with a DB writer (every
\* variant but the counter) that one caller stops, joins and starts again
InitReuse ==
  /\ InitTick
  /\ mcfg.enabled
  /\ mcfg.db_writer

NextReuse ==
  \/ loop_test(W1) /\ UNCHANGED <<monvars, bvars, xvars>>
  \/ loop_conn(W1) /\ UNCHANGED <<monvars, bvars, xvars>>
  \/ loop_backoff(W1) /\ UNCHANGED <<monvars, bvars, xvars>>
  \/ \E out \in {"SerialException", "Exception", "data"}, n \in 0..MaxTicks :
       read_serial(W1, out, n)
  \/ \E parse_ok \in BOOLEAN, write_ok \in BOOLEAN :
       frame_easy(W1, parse_ok, write_ok)
  \/ \E parse_ok \in BOOLEAN, on_error \in BOOLEAN, write_ok \in BOOLEAN :
       frame_mbox(W1, parse_ok, on_error, write_ok)
  \/ frames_done(W1)
  \/ \E reads \in PollReads, write_ok \in BOOLEAN :
       modbus_poll_once(W1, reads, write_ok)
  \/ loop_wait(W1) /\ UNCHANGED <<monvars, bvars, xvars>>
  \/ loop_exit(W1) /\ UNCHANGED <<monvars, bvars, xvars>>
  \/ loop_except(W1) /\ UNCHANGED <<monvars, bvars, xvars>>
  \/ loop_finally(W1) /\ UNCHANGED <<monvars, bvars, xvars>>
  \/ loop_fix(W1) /\ UNCHANGED <<monvars, bvars, xvars>>
  \/ start_check(1, W1) /\ UNCHANGED <<monvars, bvars, xvars>>
  \/ start_create(1) /\ UNCHANGED <<monvars, bvars, xvars>>
  \/ start_run(1) /\ UNCHANGED <<monvars, bvars, xvars>>
  \/ stop_set_state(1, W1) /\ UNCHANGED <<monvars, bvars, xvars>>
  \/ stop_set_event(1) /\ UNCHANGED <<monvars, bvars, xvars>>
  \/ stop_close_client(1) /\ UNCHANGED <<monvars, bvars, xvars>>
  \/ join(1, W1) /\ UNCHANGED <<monvars, bvars, xvars>>

SpecReuse == InitReuse /\ [][NextReuse]_vars

\* ============================================== the counter poll, by frame
\* devices[].serial of the configured devices
DevSerial == [d \in DeviceIds |-> 10 + d]
\* a serial no configured device has
OtherSerial == 10
\* what parse_response_frame rejects a frame for, in the order of its checks
FrameDefects == <<"preamble", "short", "length", "code", "hdr_crc",
                  "data_crc", "data_len">>
\* the frames the framer can hand to _poll_device: with one defect or none,
\* the serial of a device or another one, and a total_count
RespFrames ==
  [defect : {"none"} \cup {FrameDefects[i] : i \in 1..Len(FrameDefects)},
   serial : {DevSerial[d] : d \in DeviceIds} \cup {OtherSerial},
   total : 0..MaxTotal]

\* no frame has come out of the framer yet
NoFrame == [defect |-> "nothing", serial |-> 0, total |-> 0]
\* no device is being polled
NoPoll == [dev |-> 0, sent |-> FALSE, deadline |-> 0, frame |-> NoFrame]

\* parse_response_frame(frame): ValueError on the first failed check (the
\* messages of the two CRC checks contain "crc"), else the parsed response
parse_response_frame(fr) ==
  IF fr.defect # "none"
    THEN [ok |-> FALSE, crc |-> fr.defect \in {"hdr_crc", "data_crc"},
          serial |-> 0, total_count |-> 0]
    ELSE [ok |-> TRUE, crc |-> FALSE,
          serial |-> fr.serial, total_count |-> fr.total]

\* the for-loop of _poll_once moves to the next device, or _poll_once returns
\* and the loop goes to its poll_interval wait
poll_next(w) ==
  IF polling.dev = Len(PolledDevices)
    THEN /\ polling' = NoPoll
         /\ pc' = [pc EXCEPT ![w] = "wait"]
    ELSE /\ polling' = [dev |-> polling.dev + 1, sent |-> FALSE,
                        deadline |-> 0, frame |-> NoFrame]
         /\ UNCHANGED pc

\* _poll_device returns after the frame fr
poll_return(w, fr) ==
  IF polling.dev = Len(PolledDevices)
    THEN /\ polling' = [NoPoll EXCEPT !.frame = fr]
         /\ pc' = [pc EXCEPT ![w] = "wait"]
    ELSE /\ polling' = [dev |-> polling.dev + 1, sent |-> FALSE,
                        deadline |-> 0, frame |-> fr]
         /\ UNCHANGED pc

\* except Exception of _poll_once: parse_fail_total and one _set_error
poll_failed(m) == set_error(metric_inc(m, "parse_fail_total", 1), 1)

\* _poll_once: the flushing read; a SerialException is logged and closes
\* the port, any other exception of the read leaves _poll_once
poll_flush(w, out) ==
  /\ pc[w] = "tick"
  /\ kind[w] = "mbox_counter"
  /\ polling.dev = 0
  /\ IF device[w] /\ out = "SerialException"
       THEN /\ nevents < MaxTicks
            /\ nevents' = nevents + 1
            /\ device' = [device EXCEPT ![w] = FALSE]
            /\ metrics' = set_error(metrics, 1)
       ELSE UNCHANGED <<device, metrics, nevents>>
  /\ IF device[w] /\ out = "Exception"
       THEN /\ pc' = [pc EXCEPT ![w] = "except"]
            /\ UNCHANGED polling
       ELSE /\ polling' = [NoPoll EXCEPT !.dev = 1]
            /\ UNCHANGED pc
  /\ UNCHANGED <<totals, wrest, brest, db_log, dvars, cvars, mvars,
                 monvars, avars, fvars, ovars>>

\* _poll_device: build_read_request, _write_serial (RuntimeError on a closed
\* port, or the write raises), deadline = time.time() + port.timeout
poll_send(w, write_ok) ==
  /\ pc[w] = "tick"
  /\ polling.dev >= 1
  /\ ~polling.sent
  /\ IF device[w] /\ write_ok
       THEN /\ polling' = [polling EXCEPT !.sent = TRUE,
                                          !.deadline = clock + PTimeout,
                                          !.frame = NoFrame]
            /\ UNCHANGED <<pc, metrics, nevents>>
       ELSE /\ nevents < MaxTicks
            /\ nevents' = nevents + 1
            /\ metrics' = poll_failed(metrics)
            /\ poll_next(w)
  /\ UNCHANGED <<device, totals, wrest, brest, db_log, dvars, cvars, mvars,
                 monvars, avars, fvars, ovars>>

\* the frame loop of _poll_device that takes the first parsed response
\* without comparing its serial
poll_frame_any_serial(w, fr) ==
  /\ pc[w] = "tick"
  /\ polling.sent
  /\ device[w]
  /\ clock < polling.deadline
  /\ ~stop_event[w]
  /\ nevents < MaxTicks
  /\ nevents' = nevents + 1
  /\ LET parsed == parse_response_frame(fr)
         d == PolledDevices[polling.dev]
     IN IF parsed.ok
          THEN /\ totals' = [totals EXCEPT ![<<PolledConn, d>>] =
                               Some(parsed.total_count)]
               /\ poll_return(w, fr)
               /\ UNCHANGED metrics
          ELSE /\ metrics' = IF parsed.crc THEN metrics
                             ELSE metric_inc(metrics, "parse_fail_total", 1)
               /\ polling' = [polling EXCEPT !.frame = fr]
               /\ UNCHANGED <<totals, pc>>
  /\ UNCHANGED <<device, wrest, brest, db_log, dvars, cvars, mvars,
                 monvars, avars, fvars, ovars>>

\* _poll_device: one frame of a chunk read before the deadline: a parsed
\* response of the polled device's serial sets its total and returns;
\* another serial is skipped; a ValueError is counted (crc_fail_total, which
\* is not followed, or parse_fail_total) and skipped
poll_frame(w, fr) ==
  /\ pc[w] = "tick"
  /\ polling.sent
  /\ device[w]
  /\ clock < polling.deadline
  /\ ~stop_event[w]
  /\ nevents < MaxTicks
  /\ nevents' = nevents + 1
  /\ LET parsed == parse_response_frame(fr)
         d == PolledDevices[polling.dev]
     IN IF parsed.ok /\ parsed.serial = DevSerial[d]
          THEN /\ totals' = [totals EXCEPT ![<<PolledConn, d>>] =
                               Some(parsed.total_count)]
               /\ poll_return(w, fr)
               /\ UNCHANGED metrics
          ELSE /\ metrics' = IF parsed.ok \/ parsed.crc THEN metrics
                             ELSE metric_inc(metrics, "parse_fail_total", 1)
               /\ polling' = [polling EXCEPT !.frame = fr]
               /\ UNCHANGED <<totals, pc>>
  /\ UNCHANGED <<device, wrest, brest, db_log, dvars, cvars, mvars,
                 monvars, avars, fvars, ovars>>

\* _poll_device: _read_serial raises SerialException inside the wait: it is
\* logged and the port closed; the reads that follow return nothing
poll_read_error(w) ==
  /\ pc[w] = "tick"
  /\ polling.sent
  /\ device[w]
  /\ clock < polling.deadline
  /\ ~stop_event[w]
  /\ nevents < MaxTicks
  /\ nevents' = nevents + 1
  /\ device' = [device EXCEPT ![w] = FALSE]
  /\ metrics' = set_error(metrics, 1)
  /\ polling' = [polling EXCEPT !.frame = NoFrame]
  /\ UNCHANGED <<pc, totals, wrest, brest, db_log, dvars, cvars,
                 mvars, monvars, avars, fvars, ovars>>

\* _poll_device: the while loop ends on the deadline or on the stop event:
\* timeouts_total, TimeoutError into the except Exception of _poll_once
poll_deadline(w) ==
  /\ pc[w] = "tick"
  /\ polling.sent
  /\ clock >= polling.deadline \/ stop_event[w]
  /\ metrics' = poll_failed(metric_inc(metrics, "timeouts_total", 1))
  /\ poll_next(w)
  /\ UNCHANGED <<device, totals, nevents, wrest, brest, db_log, dvars,
                 cvars, mvars, monvars, avars, fvars, ovars>>

\* --------------------------------------------------------------- SpecPoll
\* a counter worker that start() has just started
InitPoll ==
  /\ \E ac \in BOOLEAN :
       /\ kind = [w \in WorkerObjs |->
                    IF w = W1 THEN "mbox_counter" ELSE "unalloc"]
       /\ autoconnect = [w \in WorkerObjs |-> w = W1 /\ ac]
  /\ writer = [w \in WorkerObjs |-> "none"]
  /\ state = [w \in WorkerObjs |-> IF w = W1 THEN "RUNNING" ELSE "CREATED"]
  /\ stop_event = [w \in WorkerObjs |-> FALSE]
  /\ pc = [w \in WorkerObjs |-> IF w = W1 THEN "loop" ELSE "none"]
  /\ device = [w \in WorkerObjs |-> FALSE]
  /\ runs_total = [w \in WorkerObjs |-> IF w = W1 THEN 1 ELSE 0]
  /\ thread_lock = [w \in WorkerObjs |-> 0]
  /\ failed = [w \in WorkerObjs |-> FALSE]
  /\ open_exit = [w \in WorkerObjs |-> FALSE]
  /\ got_stop = [w \in WorkerObjs |-> FALSE]
  /\ InitValues
  /\ workers = [i \in Ids |-> NoWorker]
  /\ InitCallers
  /\ InitMboxIdle
  /\ InitPutIdle
  /\ InitPollIdle
  /\ InitStoreEmpty
  /\ InitTransformerIdle
  /\ InitTemplateIdle
  /\ InitUpsertIdle
  /\ InitFramerIdle

NextPoll ==
  \/ clock_tick /\ UNCHANGED <<wvars, cvars, mvars, monvars, xvars>>
  \/ stop_set_state(1, W1) /\ UNCHANGED <<monvars, bvars, xvars>>
  \/ stop_set_event(1) /\ UNCHANGED <<monvars, bvars, xvars>>
  \/ loop_test(W1) /\ UNCHANGED <<monvars, bvars, xvars>>
  \/ loop_conn(W1) /\ UNCHANGED <<monvars, bvars, xvars>>
  \/ loop_backoff(W1) /\ UNCHANGED <<monvars, bvars, xvars>>
  \/ \E out \in {"ok", "SerialException", "Exception"} : poll_flush(W1, out)
  \/ \E write_ok \in BOOLEAN : poll_send(W1, write_ok)
  \/ \E fr \in RespFrames : poll_frame(W1, fr)
  \/ poll_read_error(W1)
  \/ poll_deadline(W1)
  \/ loop_wait(W1) /\ UNCHANGED <<monvars, bvars, xvars>>
  \/ loop_exit(W1) /\ UNCHANGED <<monvars, bvars, xvars>>
  \/ loop_except(W1) /\ UNCHANGED <<monvars, bvars, xvars>>
  \/ loop_finally(W1) /\ UNCHANGED <<monvars, bvars, xvars>>
  \/ loop_fix(W1) /\ UNCHANGED <<monvars, bvars, xvars>>

SpecPoll == InitPoll /\ [][NextPoll]_vars

\* ================================================================= framers
\* all byte strings of at most n bytes
RECURSIVE ByteStrings(_)
ByteStrings(n) ==
  IF n = 0 THEN {<< >>}
  ELSE LET shorter == ByteStrings(n - 1)
       IN shorter \cup {Append(s, b) : s \in {t \in shorter : Len(t) = n - 1},
                                       b \in Bytes}

\* bytearray.find(sub, start) and bytearray.index(sub, start): the first
\* position at or after `from` where sub occurs.  Positions count from 1
\* here, and 0 stands for the -1 / ValueError of no occurrence.
find(s, sub, from) ==
  LET hits == {i \in from..(Len(s) - Len(sub) + 1) :
                 SubSeq(s, i, i + Len(sub) - 1) = sub}
  IN IF hits = {} THEN 0 ELSE Min(hits)

\* MboxFramer.feed: the while True loop over self._buf
RECURSIVE MboxFramer_scan(_, _)
MboxFramer_scan(buf, frames) ==
  LET stx_idx == find(buf, <<STX>>, 1)
  IN IF stx_idx = 0
       THEN [buf |-> << >>, frames |-> frames]
       ELSE LET b == SubSeq(buf, stx_idx, Len(buf))
            IN IF Len(b) < 3
                 THEN [buf |-> b, frames |-> frames]
                 ELSE IF b[2] # DOLLAR
                   THEN MboxFramer_scan(Tail(b), frames)
                   ELSE LET etx_idx == find(b, <<ETX>>, 3)
                        IN IF etx_idx = 0
                             THEN [buf |-> b, frames |-> frames]
                             ELSE MboxFramer_scan(
                                    SubSeq(b, etx_idx + 1, Len(b)),
                                    Append(frames, SubSeq(b, 3, etx_idx - 1)))

\* a feed that forgets what the earlier feeds left in the buffer
MboxFramer_feed_unbuffered(buf, data) ==
  IF data = << >>
    THEN [buf |-> buf, frames |-> << >>]
    ELSE MboxFramer_scan(data, << >>)

\* MboxFramer.feed(data): nothing on empty data, else extend and scan
MboxFramer_feed(buf, data) ==
  IF data = << >>
    THEN [buf |-> buf, frames |-> << >>]
    ELSE MboxFramer_scan(buf \o data, << >>)

\* EasySerialFramer.feed: the while True loop over self._buf
RECURSIVE EasySerialFramer_scan(_, _, _, _)
EasySerialFramer_scan(preamble, terminator, buf, frames) ==
  LET idx == IF preamble = None THEN 1 ELSE find(buf, preamble[1], 1)
  IN IF idx = 0
       THEN LET max_keep == Len(preamble[1]) - 1
            IN [buf |-> IF max_keep > 0 /\ Len(buf) > max_keep
                          THEN SubSeq(buf, Len(buf) - max_keep + 1, Len(buf))
                          ELSE buf,
                frames |-> frames]
       ELSE LET b == SubSeq(buf, idx, Len(buf))
                start_index == IF preamble = None THEN 1
                               ELSE Len(preamble[1]) + 1
                term_idx == find(b, terminator, start_index)
            IN IF term_idx = 0
                 THEN [buf |-> b, frames |-> frames]
                 ELSE EasySerialFramer_scan(
                        preamble, terminator,
                        SubSeq(b, term_idx + Len(terminator), Len(b)),
                        Append(frames, SubSeq(b, start_index, term_idx - 1)))

\* EasySerialFramer.feed(data): nothing on empty data, else extend and scan
EasySerialFramer_feed(preamble, terminator, buf, data) ==
  IF data = << >>
    THEN [buf |-> buf, frames |-> << >>]
    ELSE EasySerialFramer_scan(preamble, terminator, buf \o data, << >>)

\* framer.feed(data) of the framer built from cfg
framer_feed(cfg, buf, data) ==
  IF cfg.cls = "mbox"
    THEN MboxFramer_feed(buf, data)
    ELSE EasySerialFramer_feed(cfg.preamble, cfg.terminator, buf, data)

\* framer f is fed the bytes of fdata up to position `upto`
feed(f, upto) ==
  /\ LET r == framer_feed(fcfg, fbuf[f], SubSeq(fdata, fpos[f] + 1, upto))
     IN /\ fbuf' = [fbuf EXCEPT ![f] = r.buf]
        /\ fout' = [fout EXCEPT ![f] = @ \o r.frames]
  /\ fpos' = [fpos EXCEPT ![f] = upto]
  /\ UNCHANGED <<fcfg, fdata, fcut>>

\* framer.feed(a) on the first fresh framer
feed_a ==
  /\ fdone = 0
  /\ feed("split", fcut)
  /\ fdone' = 1

\* framer.feed(b) on the same framer
feed_b ==
  /\ fdone = 1
  /\ feed("split", Len(fdata))
  /\ fdone' = 2

\* framer.feed(data) on the other fresh framer
feed_data ==
  /\ fdone = 2
  /\ feed("whole", Len(fdata))
  /\ fdone' = 3

\* -------------------------------------------------------------- SpecFramer
\* two fresh framers of one configuration, a byte string and a split of it
InitFramer ==
  /\ fcfg \in FramerConfigs
  /\ fdata \in ByteStrings(MaxLen)
  /\ fcut \in 0..Len(fdata)
  /\ fbuf = [f \in Framers |-> << >>]
  /\ fout = [f \in Framers |-> << >>]
  /\ fpos = [f \in Framers |-> 0]
  /\ fdone = 0
  /\ InitRegistry
  /\ InitMboxIdle
  /\ InitPutIdle
  /\ InitPollIdle
  /\ InitStoreEmpty
  /\ InitTransformerIdle
  /\ InitTemplateIdle
  /\ InitUpsertIdle

NextFramer ==
  \/ feed_a /\ UNCHANGED <<wvars, cvars, mvars, monvars, bvars, dvars, avars,
                    pvars, ovars>>
  \/ feed_b /\ UNCHANGED <<wvars, cvars, mvars, monvars, bvars, dvars, avars,
                    pvars, ovars>>
  \/ feed_data
       /\ UNCHANGED <<wvars, cvars, mvars, monvars, bvars, dvars, avars,
                    pvars, ovars>>

SpecFramer == InitFramer /\ [][NextFramer]_vars

\* --------------------------------------------------------- counter framer
\* the byte values of the counter stream: the preamble and two length bytes
CounterBytes == {PREAMBLE, 0, 1}

\* all strings of at most n counter bytes
RECURSIVE CounterByteStrings(_)
CounterByteStrings(n) ==
  IF n = 0 THEN {<< >>}
  ELSE LET shorter == CounterByteStrings(n - 1)
       IN shorter \cup {Append(s, b) : s \in {t \in shorter : Len(t) = n - 1},
                                       b \in CounterBytes}

\* MboxCounterFramer.feed: the while True loop over self._buf
RECURSIVE MboxCounterFramer_scan(_, _)
MboxCounterFramer_scan(buf, frames) ==
  LET stx == find(buf, <<PREAMBLE>>, 1)
  IN IF stx = 0
       THEN [buf |-> << >>, frames |-> frames]
       ELSE LET b == SubSeq(buf, stx, Len(buf))
            IN IF Len(b) < 2
                 THEN [buf |-> b, frames |-> frames]
                 ELSE LET frame_len == 4 + b[2]
                      IN IF frame_len <= 0
                           THEN MboxCounterFramer_scan(Tail(b), frames)
                           ELSE IF Len(b) < frame_len
                             THEN [buf |-> b, frames |-> frames]
                             ELSE MboxCounterFramer_scan(
                                    SubSeq(b, frame_len + 1, Len(b)),
                                    Append(frames, SubSeq(b, 1, frame_len)))

\* MboxCounterFramer.feed(data): nothing on empty data, else extend and scan
MboxCounterFramer_feed(buf, data) ==
  IF data = << >>
    THEN [buf |-> buf, frames |-> << >>]
    ELSE MboxCounterFramer_scan(buf \o data, << >>)

\* the counter framer is fed the next n bytes of the stream
feed_chunk(n) ==
  /\ n >= 1
  /\ fpos["split"] + n <= Len(fdata)
  /\ LET r == MboxCounterFramer_feed(
                fbuf["split"],
                SubSeq(fdata, fpos["split"] + 1, fpos["split"] + n))
     IN /\ fbuf' = [fbuf EXCEPT !["split"] = r.buf]
        /\ fout' = [fout EXCEPT !["split"] = @ \o r.frames]
  /\ fpos' = [fpos EXCEPT !["split"] = @ + n]
  /\ UNCHANGED <<fcfg, fdata, fcut, fdone>>

\* ------------------------------------------------------- SpecCounterFramer
\* a fresh MboxCounterFramer and the byte stream it is about to receive, in
\* chunks of any sizes
InitCounterFramer ==
  /\ fcfg = [cls |-> "mbox_counter", preamble |-> Some(<<PREAMBLE>>),
             terminator |-> << >>]
  /\ fdata \in CounterByteStrings(MaxLen + 2)
  /\ fcut = 0
  /\ fbuf = [f \in Framers |-> << >>]
  /\ fout = [f \in Framers |-> << >>]
  /\ fpos = [f \in Framers |-> 0]
  /\ fdone = 0
  /\ InitRegistry
  /\ InitMboxIdle
  /\ InitPutIdle
  /\ InitPollIdle
  /\ InitStoreEmpty
  /\ InitTransformerIdle
  /\ InitTemplateIdle
  /\ InitUpsertIdle

NextCounterFramer ==
  \E n \in 1..(MaxLen + 2) :
    feed_chunk(n)
    /\ UNCHANGED <<wvars, cvars, mvars, monvars, bvars, dvars, avars,
                    pvars, ovars>>

SpecCounterFramer == InitCounterFramer /\ [][NextCounterFramer]_vars

\* ------------------------------------------------------ the settings store
\* the names a connection can be given
ConnNames == {"n1", "n2", "n3"}
\* the connections a caller can pass: without an id (a create) or with one
StoreConns == [id : {NoId} \cup 1..(MaxIds + 1), name : ConnNames]

\* _assign_new_connection_id(connections)
RECURSIVE max_id(_)
max_id(connections) ==
  IF connections = << >> THEN 0
  ELSE LET m == max_id(Tail(connections))
       IN IF Head(connections).id > m THEN Head(connections).id ELSE m
assign_new_connection_id(connections) ==
  IF connections = << >> THEN 1 ELSE max_id(connections) + 1

\* upsert_connection, the name check: an existing connection has the name
\* and is not the same object by id
name_taken(connections, connection) ==
  \E i \in 1..Len(connections) :
    /\ connections[i].name = connection.name
    /\ connections[i].id # connection.id

\* upsert_connection, the else branch: the first connection with the id is
\* replaced, and without one the connection is appended
put_by_id(connections, connection) ==
  IF \E i \in 1..Len(connections) : connections[i].id = connection.id
    THEN LET idx == CHOOSE i \in 1..Len(connections) :
                      /\ connections[i].id = connection.id
                      /\ \A j \in 1..(i - 1) :
                           connections[j].id # connection.id
         IN [connections EXCEPT ![idx] = connection]
    ELSE Append(connections, connection)

\* upsert_connection that saves without the name check
upsert_connection_unchecked(connection) ==
  /\ connection.id = NoId =>
       assign_new_connection_id(store) <= MaxIds + 1
  /\ store' = IF connection.id = NoId
                THEN Append(store, [connection EXCEPT
                                      !.id = assign_new_connection_id(store)])
                ELSE put_by_id(store, connection)
  /\ sresult' = "ok"

\* upsert_connection(connection): load, the name check, the assignment of an
\* id or the replacement by id, save
upsert_connection(connection) ==
  /\ connection.id = NoId =>
       assign_new_connection_id(store) <= MaxIds + 1
  /\ IF name_taken(store, connection)
       THEN /\ sresult' = "ConnectionNameAlreadyExistsError"
            /\ UNCHANGED store
       ELSE /\ store' =
                 IF connection.id = NoId
                   THEN Append(store,
                               [connection EXCEPT
                                  !.id = assign_new_connection_id(store)])
                   ELSE put_by_id(store, connection)
            /\ sresult' = "ok"

\* delete_connection(conn_id): load, filter, save when something was deleted
delete_connection(conn_id) ==
  LET new_connections == SelectSeq(store, LAMBDA c : c.id # conn_id)
  IN /\ store' = new_connections
     /\ sresult' = IF Len(new_connections) # Len(store) THEN "True"
                   ELSE "False"

\* --------------------------------------------------------------- SpecStore
\* no settings file yet: load_app_settings returns the default AppSettings
InitStore ==
  /\ InitRegistry
  /\ InitMboxIdle
  /\ InitPutIdle
  /\ InitPollIdle
  /\ InitFramerIdle
  /\ InitStoreEmpty
  /\ InitTransformerIdle
  /\ InitTemplateIdle
  /\ InitUpsertIdle

\* what a call of the settings manager leaves alone
strest == <<wvars, cvars, mvars, monvars, bvars, dvars, avars, fvars, pvars,
            tvars, qvars, uvars>>

NextStore ==
  \/ \E connection \in StoreConns :
       upsert_connection(connection) /\ UNCHANGED strest
  \/ \E conn_id \in 1..(MaxIds + 1) :
       delete_connection(conn_id) /\ UNCHANGED strest

SpecStore == InitStore /\ [][NextStore]_vars

\* ------------------------------------------------- calls that run together
\* create_connection and update_connection are plain `def` handlers, which
\* the server runs on worker threads: two calls of upsert_connection can be
\* between their load and their save at the same time.
\* upsert_connection, app_settings = self.load_app_settings()
upsert_load(c, connection) ==
  /\ upsert[c].stage = "idle"
  /\ upsert' = [upsert EXCEPT ![c] =
                  [stage |-> "loaded", connection |-> connection,
                   create |-> connection.id = NoId, connections |-> store]]
  /\ UNCHANGED <<store, sresult>>

\* upsert_connection from the name check to save_app_settings, on the
\* connections the call has loaded
upsert_save(c) ==
  /\ upsert[c].stage = "loaded"
  /\ LET connections == upsert[c].connections
         connection == upsert[c].connection
         saved == IF connection.id = NoId
                    THEN [connection EXCEPT
                            !.id = assign_new_connection_id(connections)]
                    ELSE connection
     IN /\ saved.id <= MaxIds + 1
        /\ IF name_taken(connections, connection)
             THEN /\ upsert' = [upsert EXCEPT ![c].stage = "rejected"]
                  /\ sresult' = "ConnectionNameAlreadyExistsError"
                  /\ UNCHANGED store
             ELSE /\ store' = IF connection.id = NoId
                                THEN Append(connections, saved)
                                ELSE put_by_id(connections, connection)
                  /\ upsert' = [upsert EXCEPT ![c].stage = "done",
                                              ![c].connection = saved]
                  /\ sresult' = "ok"

\* the handler has sent its response
upsert_return(c) ==
  /\ upsert[c].stage \in {"done", "rejected"}
  /\ upsert' = [upsert EXCEPT ![c] = NoUpsert]
  /\ UNCHANGED <<store, sresult>>

\* what a step of upsert_connection leaves alone
urest == <<wvars, cvars, mvars, monvars, bvars, dvars, avars, fvars, pvars,
           tvars, qvars>>

\* the connections the concurrent calls pass: any new connection, and an
\* update of the first one
UpsertConns == {connection \in StoreConns : connection.id \in {NoId, 1}}

InitUpsert == InitStore

NextUpsert ==
  \/ \E c \in Callers, connection \in UpsertConns :
       upsert_load(c, connection) /\ UNCHANGED urest
  \/ \E c \in Callers : upsert_save(c) /\ UNCHANGED urest
  \/ \E c \in Callers : upsert_return(c) /\ UNCHANGED urest

SpecUpsert == InitUpsert /\ [][NextUpsert]_vars

\* ------------------------------------------------------ the mbox transformer
\* the weights of a label record and the tare of a configuration
Weights == 0..(MaxTotal + 2)
Tares == 0..1
TransformerConfigs ==
  [tare : Tares, treat_zero_as_error : BOOLEAN,
   treat_duplicate_as_error : BOOLEAN]
\* the parsed label records, by their real and net weight
LabelRecords == [rWeight : Weights, nWeight : Weights]

\* transform(): 1) the tare and the clamp of negative values
adjusted(cfg, rec) ==
  IF rec.rWeight - cfg.tare < 0 THEN 0 ELSE rec.rWeight - cfg.tare

\* transform() that remembers the weight from before the fallback to the
\* net weight
transform_keep_adjusted(cfg, last, rec) ==
  LET adj0 == adjusted(cfg, rec)
      zero == cfg.treat_zero_as_error /\ adj0 = 0
      adj_r == IF zero THEN rec.nWeight ELSE adj0
      dup == /\ ~zero
             /\ cfg.treat_duplicate_as_error
             /\ last # None /\ adj_r = last[1]
  IN [last |-> Some(adj0),
      result |-> [on_error |-> zero \/ dup,
                  error_info |-> IF zero THEN "error_label_zero"
                                 ELSE IF dup THEN "error_label_duplicate"
                                 ELSE "",
                  n_weight |-> rec.nWeight,
                  r_weight |-> adj_r,
                  adj_r_weight |-> adj_r]]

\* transform(mbox_id, rec): the zero-weight detection with its fallback to
\* the net weight, the duplicate detection against _last_adj_r_weight, the
\* update of _last_adj_r_weight, the variables of the result
transform(cfg, last, rec) ==
  LET adj0 == adjusted(cfg, rec)
      zero == cfg.treat_zero_as_error /\ adj0 = 0
      adj_r == IF zero THEN rec.nWeight ELSE adj0
      dup == /\ ~zero
             /\ cfg.treat_duplicate_as_error
             /\ last # None /\ adj_r = last[1]
  IN [last |-> Some(adj_r),
      result |-> [on_error |-> zero \/ dup,
                  error_info |-> IF zero THEN "error_label_zero"
                                 ELSE IF dup THEN "error_label_duplicate"
                                 ELSE "",
                  n_weight |-> rec.nWeight,
                  r_weight |-> adj_r,
                  adj_r_weight |-> adj_r]]

\* tr.transform(rec) on the transformer of the worker
transform_record(rec) ==
  LET r == transform(transformer.cfg, transformer.last, rec)
  IN transformer' = [cfg |-> transformer.cfg, last |-> r.last,
                     rec |-> Some(rec), result |-> Some(r.result)]

\* ----------------------------------------------------------- SpecTransform
\* MboxTransformer(config): no weight is remembered
InitTransform ==
  /\ \E cfg \in TransformerConfigs :
       transformer = [cfg |-> cfg, last |-> None, rec |-> None,
                      result |-> None]
  /\ InitRegistry
  /\ InitMboxIdle
  /\ InitPutIdle
  /\ InitPollIdle
  /\ InitStoreEmpty
  /\ InitTemplateIdle
  /\ InitUpsertIdle
  /\ InitFramerIdle

NextTransform ==
  \E rec \in LabelRecords :
    transform_record(rec)
    /\ UNCHANGED <<wvars, cvars, mvars, monvars, bvars, dvars, avars, fvars,
                   pvars, svars, qvars, uvars>>

SpecTransform == InitTransform /\ [][NextTransform]_vars

\* ------------------------------------------------------ the query template
\* the characters of a template: the braces, a letter, a digit, a space
TemplateChars == {"{", "}", "a", "1", " "}
RECURSIVE TemplateStrings(_)
TemplateStrings(n) ==
  IF n = 0 THEN {<< >>}
  ELSE LET S == TemplateStrings(n - 1)
       IN S \cup {Append(s, ch) : s \in S, ch \in TemplateChars}

\* str.strip()
RECURSIVE strip(_)
strip(s) ==
  IF s = << >> THEN s
  ELSE IF Head(s) = " " THEN strip(Tail(s))
  ELSE IF s[Len(s)] = " " THEN strip(SubSeq(s, 1, Len(s) - 1))
  ELSE s

\* str.isidentifier() over these characters
isidentifier(name) ==
  /\ name # << >>
  /\ name[1] = "a"
  /\ \A k \in 1..Len(name) : name[k] \in {"a", "1"}

\* compile_query_template that leaves a placeholder as it is written
RECURSIVE compile_scan_verbatim(_, _, _, _)
compile_scan_verbatim(template, i, result_parts, param_names) ==
  IF i > Len(template)
    THEN [ok |-> TRUE, sql |-> result_parts, param_names |-> param_names]
  ELSE IF template[i] = "{"
    THEN IF i + 1 <= Len(template) /\ template[i + 1] = "{"
           THEN compile_scan_verbatim(template, i + 2,
                                      Append(result_parts, "{"), param_names)
           ELSE LET j == find(template, <<"}">>, i + 1)
                    name == strip(SubSeq(template, i + 1, j - 1))
                IN IF j = 0 \/ ~isidentifier(name)
                     THEN [ok |-> FALSE, sql |-> << >>, param_names |-> {}]
                     ELSE compile_scan_verbatim(
                            template, j + 1,
                            result_parts \o <<"{">> \o name \o <<"}">>,
                            param_names \cup {name})
  ELSE IF template[i] = "}"
    THEN IF i + 1 <= Len(template) /\ template[i + 1] = "}"
           THEN compile_scan_verbatim(template, i + 2,
                                      Append(result_parts, "}"), param_names)
           ELSE [ok |-> FALSE, sql |-> << >>, param_names |-> {}]
  ELSE compile_scan_verbatim(template, i + 1,
                             Append(result_parts, template[i]), param_names)

\* compile_query_template, the while loop from position i (1-based) on: the
\* escapes, a placeholder up to the next "}", a lone "}", a normal
\* character; ok is FALSE where QueryTemplateError is raised
RECURSIVE compile_scan(_, _, _, _)
compile_scan(template, i, result_parts, param_names) ==
  IF i > Len(template)
    THEN [ok |-> TRUE, sql |-> result_parts, param_names |-> param_names]
  ELSE IF template[i] = "{"
    THEN IF i + 1 <= Len(template) /\ template[i + 1] = "{"
           THEN compile_scan(template, i + 2, Append(result_parts, "{"),
                             param_names)
           ELSE LET j == find(template, <<"}">>, i + 1)
                    name == strip(SubSeq(template, i + 1, j - 1))
                IN IF j = 0 \/ ~isidentifier(name)
                     THEN [ok |-> FALSE, sql |-> << >>, param_names |-> {}]
                     ELSE compile_scan(template, j + 1,
                                       result_parts \o <<":">> \o name,
                                       param_names \cup {name})
  ELSE IF template[i] = "}"
    THEN IF i + 1 <= Len(template) /\ template[i + 1] = "}"
           THEN compile_scan(template, i + 2, Append(result_parts, "}"),
                             param_names)
           ELSE [ok |-> FALSE, sql |-> << >>, param_names |-> {}]
  ELSE compile_scan(template, i + 1, Append(result_parts, template[i]),
                    param_names)

\* compile_query_template(template)
compile_query_template(template) == compile_scan(template, 1, << >>, {})

\* compile_query_template(t)
compile_once ==
  /\ qt.once = None
  /\ qt' = [qt EXCEPT !.once = Some(compile_query_template(qt.template))]

\* compile_query_template(compile_query_template(t).sql)
compile_twice ==
  /\ qt.once # None /\ qt.once[1].ok
  /\ qt.twice = None
  /\ qt' = [qt EXCEPT !.twice = Some(compile_query_template(qt.once[1].sql))]

\* ------------------------------------------------------------ SpecTemplate
\* any template of up to MaxLen characters, not compiled yet
InitTemplate ==
  /\ \E t \in TemplateStrings(MaxLen) :
       qt = [template |-> t, once |-> None, twice |-> None]
  /\ InitRegistry
  /\ InitMboxIdle
  /\ InitPutIdle
  /\ InitPollIdle
  /\ InitStoreEmpty
  /\ InitTransformerIdle
  /\ InitUpsertIdle
  /\ InitFramerIdle

\* what a compilation leaves alone
qrest == <<wvars, cvars, mvars, monvars, bvars, dvars, avars, fvars, pvars,
           svars, tvars, uvars>>

NextTemplate ==
  \/ compile_once /\ UNCHANGED qrest
  \/ compile_twice /\ UNCHANGED qrest

SpecTemplate == InitTemplate /\ [][NextTemplate]_vars

\* ------------------------------------- the easy-serial worker on a stream
\* the bytes of the stream: the digits 1 and 2, the letter x, a line feed
StreamBytes == {49, 50, 120, 10}
RECURSIVE StreamByteStrings(_)
StreamByteStrings(n) ==
  IF n = 0 THEN {<< >>}
  ELSE LET S == StreamByteStrings(n - 1)
       IN S \cup {Append(s, b) : s \in S, b \in StreamBytes}

\* the framers of the stream: terminator "\n", no preamble or preamble "x"
StreamConfigs ==
  {[cls |-> "easy_serial", preamble |-> None, terminator |-> <<10>>],
   [cls |-> "easy_serial", preamble |-> Some(<<120>>), terminator |-> <<10>>]}

\* int(raw) of _coerce_value on the bytes of a field: ValueError (None) on
\* an empty field or a byte that is no digit
RECURSIVE int(_, _)
int(raw, acc) ==
  IF raw = << >> THEN Some(acc)
  ELSE IF Head(raw) \notin 48..57 THEN None
  ELSE int(Tail(raw), 10 * acc + (Head(raw) - 48))

\* parse_payload_text(text, settings) with one field of type int at index
\* 0: the parsed value, or None when it raises
parse_payload_text(payload) ==
  IF payload = << >> THEN None ELSE int(payload, 0)

\* _handle_parsed_message that puts the new record in front of the others
handle_parsed_first(m, parsed, write_ok) ==
  IF write_ok
    THEN /\ db_log' = <<[src |-> "frame", payload |-> parsed]>> \o db_log
         /\ metrics' = metric_inc(m, "db_writes_total", 1)
    ELSE /\ metrics' = db_write_failed(m, 1, clock)
         /\ UNCHANGED db_log

\* _handle_parsed_message(parsed) of a worker that logs to the DB:
\* build_query and db_writer.write, a raising writer is counted
handle_parsed(m, parsed, write_ok) ==
  IF write_ok
    THEN /\ db_log' = Append(db_log, [src |-> "frame", payload |-> parsed])
         /\ metrics' = metric_inc(m, "db_writes_total", 1)
    ELSE /\ metrics' = db_write_failed(m, 1, clock)
         /\ UNCHANGED db_log

\* _run_loop: data = _read_from_serial() of the next n bytes of the stream,
\* frames = framer.feed(data), frames_total; the frames wait for the for-loop
stream_read(n) ==
  /\ fdone = Len(fout["split"])
  /\ fpos["split"] + n <= Len(fdata)
  /\ LET r == framer_feed(fcfg, fbuf["split"],
                          SubSeq(fdata, fpos["split"] + 1, fpos["split"] + n))
     IN /\ fbuf' = [fbuf EXCEPT !["split"] = r.buf]
        /\ fout' = [fout EXCEPT !["split"] = @ \o r.frames]
        /\ metrics' = metric_inc(metrics, "frames_total", Len(r.frames))
  /\ fpos' = [fpos EXCEPT !["split"] = @ + n]
  /\ UNCHANGED <<fcfg, fdata, fcut, fdone, db_log>>

\* _run_loop, the for-loop over the frames of the chunk, one frame: parse,
\* parse_ok_total and _handle_parsed_message, or the parse error counted
stream_frame(write_ok) ==
  /\ fdone < Len(fout["split"])
  /\ fdone' = fdone + 1
  /\ LET parsed == parse_payload_text(fout["split"][fdone + 1])
     IN IF parsed = None
          THEN /\ metrics' = metric_inc(set_error(metrics, 1),
                                        "parse_fail_total", 1)
               /\ UNCHANGED db_log
          ELSE handle_parsed(metric_inc(metrics, "parse_ok_total", 1),
                             parsed[1], write_ok)
  /\ UNCHANGED <<fcfg, fdata, fcut, fbuf, fout, fpos>>

\* -------------------------------------------------------------- SpecStream
\* a fresh framer of an easy-serial worker and the stream its port delivers
InitStream ==
  /\ fcfg \in StreamConfigs
  /\ fdata \in StreamByteStrings(MaxLen)
  /\ fcut = 0
  /\ fbuf = [f \in Framers |-> << >>]
  /\ fout = [f \in Framers |-> << >>]
  /\ fpos = [f \in Framers |-> 0]
  /\ fdone = 0
  /\ InitRegistry
  /\ InitMboxIdle
  /\ InitPutIdle
  /\ InitPollIdle
  /\ InitStoreEmpty
  /\ InitTransformerIdle
  /\ InitTemplateIdle
  /\ InitUpsertIdle

\* what a step of the stream leaves alone
srest == <<wvars, cvars, mvars, monvars, brest, avars, pvars, ovars, totals,
           dvars, nevents>>

NextStream ==
  \/ \E n \in 1..MaxLen : stream_read(n) /\ UNCHANGED srest
  \/ \E write_ok \in BOOLEAN : stream_frame(write_ok) /\ UNCHANGED srest

SpecStream == InitStream /\ [][NextStream]_vars

\* ===================================================== PUT /connections/{id}
\* get_state(conn_id): the state of the registered worker, None without one
get_state(id) ==
  IF workers[id] = NoWorker THEN "None" ELSE state[workers[id]]

\* update_connection up to upsert_connection: 404 when the settings hold no
\* such connection, prev_state = get_state(conn_id), 400 when the new name
\* is taken; cfg and auto are the payload, sres the answer of the settings.
\* One request is followed from its arrival to its response.
put_begin(c, id, cfg, auto, sres) ==
  /\ cpc[c] = "idle"
  /\ \A d \in Callers : put[d].stage = "idle"
  /\ IF sres = "ok"
       THEN /\ put' = [put EXCEPT ![c] =
                         [stage |-> "stop", id |-> id, cfg |-> cfg,
                          auto |-> auto, prev |-> get_state(id),
                          old |-> workers[id], new |-> NoWorker]]
            /\ UNCHANGED ret
       ELSE /\ put' = [put EXCEPT ![c] = [NoPut EXCEPT !.stage = "rejected"]]
            /\ ret' = sres
  /\ UNCHANGED <<wvars, cpc, cw, mvars>>

\* runtime_manager.stop_connection(conn_id)
put_stop(c) ==
  /\ put[c].stage = "stop"
  /\ do_lookup(c, put[c].id, "stop_enter", "not_registered")
  /\ put' = [put EXCEPT ![c].stage = "join"]
  /\ UNCHANGED ncalls

\* runtime_manager.join_connection(conn_id, timeout=5.0): the lookup
put_join(c) ==
  /\ put[c].stage = "join"
  /\ do_lookup(c, put[c].id, "join_enter", "not_registered")
  /\ put' = [put EXCEPT ![c].stage =
               IF workers[put[c].id] = NoWorker THEN "unregister"
               ELSE "joining"]
  /\ UNCHANGED ncalls

\* join_connection: worker.join(timeout); its RuntimeError ends the request
put_join_wait(c) ==
  /\ put[c].stage = "joining"
  /\ cpc[c] = "join_enter"
  /\ join(c, cw[c])
  /\ put' = [put EXCEPT ![c].stage =
               IF ret' = "join_error" THEN "failed" ELSE "unregister"]

\* runtime_manager.unregister_connection(conn_id)
put_unregister(c) ==
  /\ put[c].stage = "unregister"
  /\ do_unregister_connection(c, put[c].id)
  /\ put' = [put EXCEPT ![c].stage = "register"]
  /\ UNCHANGED ncalls

\* runtime_manager.register_connection(updated); the ValueError of a config
\* without the sub-config of its type ends the request
put_register(c) ==
  /\ put[c].stage = "register"
  /\ do_register_connection(c, put[c].id, put[c].cfg)
  /\ put' = [put EXCEPT ![c].stage =
                          IF ret' = "ValueError_no_subconfig"
                            THEN "failed" ELSE "decide",
                        ![c].new =
                          IF ret' = "ValueError_no_subconfig"
                            THEN NoWorker ELSE ret_w']
  /\ UNCHANGED ncalls

\* the start decision taken from the autostart flag alone
put_decide_autostart_only(c) ==
  /\ put[c].stage = "decide"
  /\ IF put[c].auto
       THEN /\ do_lookup(c, put[c].id, "start_enter", "KeyError")
            /\ put' = [put EXCEPT ![c].stage =
                         IF workers[put[c].id] = NoWorker
                           THEN "failed" ELSE "starting"]
       ELSE /\ cpc[c] = "idle"
            /\ put' = [put EXCEPT ![c].stage = "done"]
            /\ UNCHANGED <<wvars, cvars, workers, ret_w, snap, todo>>
  /\ UNCHANGED ncalls

\* if updated.id is not None and (prev_state == RUNNING or
\* updated.autostart): runtime_manager.start_connection(updated.id);
\* updated.id is conn_id; else the request returns
put_decide(c) ==
  /\ put[c].stage = "decide"
  /\ IF put[c].prev = "RUNNING" \/ put[c].auto
       THEN /\ do_lookup(c, put[c].id, "start_enter", "KeyError")
            /\ put' = [put EXCEPT ![c].stage =
                         IF workers[put[c].id] = NoWorker
                           THEN "failed" ELSE "starting"]
       ELSE /\ cpc[c] = "idle"
            /\ put' = [put EXCEPT ![c].stage = "done"]
            /\ UNCHANGED <<wvars, cvars, workers, ret_w, snap, todo>>
  /\ UNCHANGED ncalls

\* return updated, once worker.start() has returned
put_return(c) ==
  /\ put[c].stage = "starting"
  /\ cpc[c] = "idle"
  /\ put' = [put EXCEPT ![c].stage = "done"]
  /\ UNCHANGED <<wvars, cvars, mvars>>

\* ---------------------------------------------------------------- SpecPut
\* the runtime after the application has started: the first id holds the
\* worker registered for a stored connection, started when its config has
\* autostart set
InitPut ==
  /\ \E cfg \in {g \in Configs : g.sub}, started \in BOOLEAN :
       /\ kind = [w \in WorkerObjs |->
                    IF w = W1 THEN NewWorker(cfg.type, cfg.ac, "open").kind
                    ELSE "unalloc"]
       /\ autoconnect = [w \in WorkerObjs |-> w = W1 /\ cfg.ac]
       /\ writer = [w \in WorkerObjs |->
                      IF w = W1
                        THEN NewWorker(cfg.type, cfg.ac,
                                       IF cfg.db THEN "open" ELSE "none").writer
                        ELSE "none"]
       /\ state = [w \in WorkerObjs |->
                     IF w = W1 /\ started THEN "RUNNING" ELSE "CREATED"]
       /\ pc = [w \in WorkerObjs |->
                  IF w = W1 /\ started THEN "loop" ELSE "none"]
       /\ runs_total = [w \in WorkerObjs |->
                          IF w = W1 /\ started THEN 1 ELSE 0]
  /\ stop_event = [w \in WorkerObjs |-> FALSE]
  /\ device = [w \in WorkerObjs |-> FALSE]
  /\ thread_lock = [w \in WorkerObjs |-> 0]
  /\ failed = [w \in WorkerObjs |-> FALSE]
  /\ open_exit = [w \in WorkerObjs |-> FALSE]
  /\ got_stop = [w \in WorkerObjs |-> FALSE]
  /\ workers = [i \in Ids |-> IF i = Min(Ids) THEN W1 ELSE NoWorker]
  /\ InitCallers
  /\ InitMboxIdle
  /\ InitValues
  /\ InitPutIdle
  /\ InitPollIdle
  /\ InitStoreEmpty
  /\ InitTransformerIdle
  /\ InitTemplateIdle
  /\ InitUpsertIdle
  /\ InitFramerIdle

NextPut ==
  \/ \E c \in Callers, id \in Ids, cfg \in Configs, auto \in BOOLEAN,
        sres \in {"ok", "HTTP_404", "HTTP_400"} :
       put_begin(c, id, cfg, auto, sres)
       /\ UNCHANGED <<monvars, bvars, dvars, fvars, pvars, ovars>>
  \/ \E c \in Callers : put_stop(c) /\ UNCHANGED <<monvars, bvars, dvars, fvars, pvars, ovars>>
  \/ \E c \in Callers : put_join(c) /\ UNCHANGED <<monvars, bvars, dvars, fvars, pvars, ovars>>
  \/ \E c \in Callers :
       put_join_wait(c) /\ UNCHANGED <<monvars, bvars, dvars, fvars, pvars, ovars>>
  \/ \E c \in Callers :
       put_unregister(c) /\ UNCHANGED <<monvars, bvars, dvars, fvars, pvars, ovars>>
  \/ \E c \in Callers :
       put_register(c) /\ UNCHANGED <<monvars, bvars, dvars, fvars, pvars, ovars>>
  \/ \E c \in Callers :
       put_decide(c) /\ UNCHANGED <<monvars, bvars, dvars, fvars, pvars, ovars>>
  \/ \E c \in Callers :
       put_return(c) /\ UNCHANGED <<monvars, bvars, dvars, fvars, pvars, ovars>>
  \/ \E c \in Callers :
       cpc[c] = "start_enter" /\ start_check(c, cw[c])
       /\ UNCHANGED <<monvars, bvars, xvars>>
  \/ \E c \in Callers : start_create(c) /\ UNCHANGED <<monvars, bvars, xvars>>
  \/ \E c \in Callers : start_run(c) /\ UNCHANGED <<monvars, bvars, xvars>>
  \/ \E c \in Callers :
       cpc[c] = "stop_enter" /\ stop_set_state(c, cw[c])
       /\ UNCHANGED <<monvars, bvars, xvars>>
  \/ \E c \in Callers : stop_set_event(c) /\ UNCHANGED <<monvars, bvars, xvars>>
  \/ \E c \in Callers :
       stop_close_client(c) /\ UNCHANGED <<monvars, bvars, xvars>>
  \/ \E w \in WorkerObjs : loop_test(w) /\ UNCHANGED <<monvars, bvars, xvars>>
  \/ \E w \in WorkerObjs : loop_conn(w) /\ UNCHANGED <<monvars, bvars, xvars>>
  \/ \E w \in WorkerObjs : loop_backoff(w) /\ UNCHANGED <<monvars, bvars, xvars>>
  \/ \E w \in WorkerObjs : loop_tick(w) /\ UNCHANGED <<monvars, bvars, xvars>>
  \/ \E w \in WorkerObjs : loop_wait(w) /\ UNCHANGED <<monvars, bvars, xvars>>
  \/ \E w \in WorkerObjs : loop_exit(w) /\ UNCHANGED <<monvars, bvars, xvars>>
  \/ \E w \in WorkerObjs : loop_except(w) /\ UNCHANGED <<monvars, bvars, xvars>>
  \/ \E w \in WorkerObjs : loop_finally(w) /\ UNCHANGED <<monvars, bvars, xvars>>
  \/ \E w \in WorkerObjs : loop_fix(w) /\ UNCHANGED <<monvars, bvars, xvars>>

SpecPut == InitPut /\ [][NextPut]_vars

\* ======================================================= POST /{id}/restart
\* restart_connection up to register_connection(conn): 404 when the settings
\* hold no such connection; cfg is the stored config.  register_connection
\* returns the worker the id already has, or builds one; its ValueError ends
\* the request.  One request is followed from its arrival to its response.
restart_begin(c, id, cfg, found) ==
  /\ cpc[c] = "idle"
  /\ \A d \in Callers : put[d].stage = "idle"
  /\ IF found
       THEN /\ do_register_connection(c, id, cfg)
            /\ put' = [put EXCEPT ![c] =
                         [stage |-> IF ret' = "ValueError_no_subconfig"
                                      THEN "failed" ELSE "restart_stop",
                          id |-> id, cfg |-> cfg, auto |-> FALSE,
                          prev |-> "None", old |-> workers[id],
                          new |-> IF ret' = "ValueError_no_subconfig"
                                    THEN NoWorker ELSE ret_w']]
       ELSE /\ put' = [put EXCEPT ![c] = [NoPut EXCEPT !.stage = "rejected"]]
            /\ ret' = "HTTP_404"
            /\ UNCHANGED <<wvars, cpc, cw, workers, ret_w, snap, todo>>
  /\ UNCHANGED ncalls

\* 1) runtime_manager.stop_connection(conn_id)
restart_stop(c) ==
  /\ put[c].stage = "restart_stop"
  /\ do_lookup(c, put[c].id, "stop_enter", "not_registered")
  /\ put' = [put EXCEPT ![c].stage = "restart_join"]
  /\ UNCHANGED ncalls

\* 2) runtime_manager.join_connection(conn_id, timeout=2.0): the lookup
restart_join(c) ==
  /\ put[c].stage = "restart_join"
  /\ do_lookup(c, put[c].id, "join_enter", "not_registered")
  /\ put' = [put EXCEPT ![c].stage = "restart_joining"]
  /\ UNCHANGED ncalls

\* join_connection: worker.join(2.0) returns when the thread has finished
\* or when the two seconds have passed
restart_join_wait(c) ==
  /\ put[c].stage = "restart_joining"
  /\ cpc[c] = "join_enter"
  /\ join(c, cw[c])
  /\ put' = [put EXCEPT ![c].stage =
               IF ret' = "join_error" THEN "failed" ELSE "restart_start"]

\* 3) runtime_manager.start_connection(conn_id): the lookup
restart_start(c) ==
  /\ put[c].stage = "restart_start"
  /\ do_lookup(c, put[c].id, "start_enter", "KeyError")
  /\ put' = [put EXCEPT ![c].stage = "restart_starting"]
  /\ UNCHANGED ncalls

\* the response, once worker.start() has returned
restart_return(c) ==
  /\ put[c].stage = "restart_starting"
  /\ cpc[c] = "idle"
  /\ put' = [put EXCEPT ![c].stage = "restarted"]
  /\ UNCHANGED <<wvars, cvars, mvars>>

\* ------------------------------------------------------------ SpecRestart
InitRestart == InitPut

NextRestart ==
  \/ \E c \in Callers, id \in Ids, cfg \in Configs, found \in BOOLEAN :
       restart_begin(c, id, cfg, found)
       /\ UNCHANGED <<monvars, bvars, dvars, fvars, pvars, ovars>>
  \/ \E c \in Callers :
       restart_stop(c) /\ UNCHANGED <<monvars, bvars, dvars, fvars, pvars, ovars>>
  \/ \E c \in Callers :
       restart_join(c) /\ UNCHANGED <<monvars, bvars, dvars, fvars, pvars, ovars>>
  \/ \E c \in Callers :
       restart_join_wait(c)
       /\ UNCHANGED <<monvars, bvars, dvars, fvars, pvars, ovars>>
  \/ \E c \in Callers :
       restart_start(c) /\ UNCHANGED <<monvars, bvars, dvars, fvars, pvars, ovars>>
  \/ \E c \in Callers :
       restart_return(c) /\ UNCHANGED <<monvars, bvars, dvars, fvars, pvars, ovars>>
  \/ \E c \in Callers :
       cpc[c] = "start_enter" /\ start_check(c, cw[c])
       /\ UNCHANGED <<monvars, bvars, xvars>>
  \/ \E c \in Callers : start_create(c) /\ UNCHANGED <<monvars, bvars, xvars>>
  \/ \E c \in Callers : start_run(c) /\ UNCHANGED <<monvars, bvars, xvars>>
  \/ \E c \in Callers :
       cpc[c] = "stop_enter" /\ stop_set_state(c, cw[c])
       /\ UNCHANGED <<monvars, bvars, xvars>>
  \/ \E c \in Callers : stop_set_event(c) /\ UNCHANGED <<monvars, bvars, xvars>>
  \/ \E c \in Callers :
       stop_close_client(c) /\ UNCHANGED <<monvars, bvars, xvars>>
  \/ \E w \in WorkerObjs : loop_test(w) /\ UNCHANGED <<monvars, bvars, xvars>>
  \/ \E w \in WorkerObjs : loop_conn(w) /\ UNCHANGED <<monvars, bvars, xvars>>
  \/ \E w \in WorkerObjs : loop_backoff(w) /\ UNCHANGED <<monvars, bvars, xvars>>
  \/ \E w \in WorkerObjs : loop_tick(w) /\ UNCHANGED <<monvars, bvars, xvars>>
  \/ \E w \in WorkerObjs : loop_wait(w) /\ UNCHANGED <<monvars, bvars, xvars>>
  \/ \E w \in WorkerObjs : loop_exit(w) /\ UNCHANGED <<monvars, bvars, xvars>>
  \/ \E w \in WorkerObjs : loop_except(w) /\ UNCHANGED <<monvars, bvars, xvars>>
  \/ \E w \in WorkerObjs : loop_finally(w) /\ UNCHANGED <<monvars, bvars, xvars>>
  \/ \E w \in WorkerObjs : loop_fix(w) /\ UNCHANGED <<monvars, bvars, xvars>>

SpecRestart == InitRestart /\ [][NextRestart]_vars

\* ================================================================ claims
\* ---------------------------------------------------------- worker claims

\* C1: after start() on a CREATED worker, then stop(), then a join() that
\* waited for the run-loop thread to finish, the state is STOPPED, provided
\* the loop hit no top-level failure.
C1_StartStopJoinStopped ==
  (script = "joined" /\ ~failed[W1]) => state[W1] = "STOPPED"

\* C2: stop() on a worker whose state is not RUNNING leaves the state as it
\* was.
C2_StopNotRunningNoop ==
  [][\A c \in Callers, w \in WorkerObjs :
       (stop_set_state(c, w) /\ state[w] # "RUNNING")
         => state'[w] = state[w]]_vars

\* C3: start() on a RUNNING worker returns with the state RUNNING, no new
\* thread and runs_total unchanged; under every interleaving of start()
\* calls a thread is created only for a worker that is not RUNNING and has
\* no live thread, and runs_total grows by one per created thread.
C3_StartIdempotent ==
  [][/\ \A c \in Callers, w \in WorkerObjs :
          (start_check(c, w) /\ state[w] = "RUNNING")
            => /\ state'[w] = "RUNNING"
               /\ pc' = pc
               /\ runs_total' = runs_total
               /\ thread_lock' = thread_lock
               /\ cpc'[c] = "idle"
     /\ \A w \in WorkerObjs :
          /\ (pc'[w] = "new" /\ pc[w] # "new")
               => (state[w] # "RUNNING" /\ ~is_alive(w))
          /\ runs_total'[w] # runs_total[w]
               => (pc[w] = "new" /\ runs_total'[w] = runs_total[w] + 1)]_vars

\* a second start() has returned on the RUNNING worker with its thread alive
C3_Witness ==
  /\ ret = "start_noop"
  /\ state[W1] = "RUNNING"
  /\ is_alive(W1)
  /\ runs_total[W1] = 1

\* C4: a run that left the loop because the open failed with autoconnect
\* off ends, once the thread has finished, in ERROR (only start() called).
C4_OpenFailEndsError ==
  \A w \in WorkerObjs :
    (pc[w] = "done" /\ open_exit[w] /\ script = "started")
      => state[w] = "ERROR"

\* C5: no state shows ERROR set by the top-level handler while the device
\* handle is still open.
C5_ReleasedBeforeError ==
  \A w \in WorkerObjs : ~(state[w] = "ERROR" /\ failed[w] /\ device[w])

\* --------------------------------------------------------- manager claims

\* C6: shutdown_all leaves an empty registry and stops every worker: when it
\* clears the registry, the registry becomes empty and every worker that is
\* in the registry at that moment has received stop(), under any
\* interleaving with concurrent register / start calls.
C6_ShutdownStopsEveryWorker ==
  [][\A c \in Callers :
       sd_clear(c) =>
         /\ \A id \in Ids : workers'[id] = NoWorker
         /\ \A id \in Ids :
              workers[id] # NoWorker => got_stop[workers[id]]]_vars

\* C7: after workers are registered (started, never started or already
\* finished) and shutdown_all runs with no other call in flight and every
\* join completing, no worker remains registered and each of those workers
\* is STOPPED or ERROR.
C7_ShutdownLeavesStoppedOrError ==
  [][\A c \in Callers :
       (sd_clear(c) /\ seq_only) =>
         /\ \A id \in Ids : workers'[id] = NoWorker
         /\ \A w \in snap[c] : state[w] \in {"STOPPED", "ERROR"}]_vars

\* C8: register is idempotent per id.  A register call on a registered id
\* returns the registered worker and builds nothing, whatever its config; a
\* call on a free id that returns a worker has built exactly that one worker
\* and stored it under the id, and a call that fails builds and stores
\* nothing.  A worker object comes into being only for a free id, and the
\* worker of a registered id is never replaced, only removed.
C8_RegisterIdempotent ==
  [][/\ \A c \in Callers, id \in Ids, cfg \in Configs :
          register_connection(c, id, cfg) =>
            IF workers[id] # NoWorker
              THEN /\ ret' = "worker_existing"
                   /\ ret_w' = workers[id]
                   /\ workers' = workers
                   /\ kind' = kind
              ELSE /\ ret' \in {"worker_created", "ValueError_no_subconfig"}
                   /\ ret' = "worker_created" =>
                        /\ ret_w' \in FreeObjs
                        /\ workers' = [workers EXCEPT ![id] = ret_w']
                        /\ \A w \in WorkerObjs \ {ret_w'} : kind'[w] = kind[w]
                   /\ ret' # "worker_created" =>
                        workers' = workers /\ kind' = kind
     /\ \A w \in WorkerObjs :
          (kind[w] = "unalloc" /\ kind'[w] # "unalloc") =>
            \E id \in Ids :
              /\ workers[id] = NoWorker
              /\ workers'[id] = w
              /\ \A j \in Ids \ {id} : workers'[j] = workers[j]
     /\ \A id \in Ids :
          (workers[id] # NoWorker /\ workers'[id] # workers[id]) =>
            workers'[id] = NoWorker]_vars

\* the second register call of an id has returned the worker of the first:
\* two calls made, one worker object built, and it is the one returned
C8_Witness ==
  /\ ret = "worker_existing"
  /\ ncalls = 2
  /\ \E id \in Ids : workers[id] = ret_w /\ ret_w # NoWorker
  /\ Cardinality({w \in WorkerObjs : kind[w] # "unalloc"}) = 1

\* C9: register with config.id absent fails with an error, creates no worker
\* and leaves the registry unchanged.
C9_RegisterWithoutIdFails ==
  [][\A c \in Callers, cfg \in Configs :
       register_connection(c, NoId, cfg) =>
         /\ ret' = "ValueError_no_id"
         /\ workers' = workers
         /\ ret_w' = ret_w
         /\ UNCHANGED wvars]_vars

\* a register without id has failed on a registry that holds a worker, and
\* no second worker object exists
C9_Witness ==
  /\ ret = "ValueError_no_id"
  /\ \E id \in Ids : workers[id] # NoWorker
  /\ Cardinality({w \in WorkerObjs : kind[w] # "unalloc"}) = 1

\* ------------------------------------------------------------ mbox claims

\* C10: clean scenario.  When a pack has been parsed (its confirmation is
\* pending), the next positive increment of the bound counter's total that
\* _tick_counter_logic observes is counted as a confirmation: the pending
\* pack is cleared and counter_confirm_total grows by one; no miss is
\* scheduled and nothing is written to the DB.  While every observed
\* increment was such a confirmation, no miss is pending or scheduled and
\* the DB holds no miss record.
C10_CleanConfirmation ==
  [][/\ ( /\ tick_counter_logic
          /\ pending_pack_ts # None
          /\ read_counter_total # None
          /\ counter_last_total # None
          /\ read_counter_total[1] > counter_last_total[1] )
        => /\ pending_pack_ts' = None
           /\ metrics'["counter_confirm_total"] =
                metrics["counter_confirm_total"] + 1
           /\ pending_miss' = pending_miss
           /\ miss_deadline_ts' = miss_deadline_ts
           /\ db_log' = db_log
           /\ \A n \in {"db_writes_total", "db_write_fail_total",
                        "packs_total", "packs_miss_total"} :
                metrics'[n] = metrics[n]
     /\ (metrics'["counter_increments_total"] =
           metrics'["counter_confirm_total"])
        => /\ pending_miss' = 0
           /\ miss_deadline_ts' = None
           /\ \A i \in DOMAIN db_log' : db_log'[i].src = "pack"]_vars

\* the clean scenario has run: one pack written with on_error = FALSE, one
\* increment observed and counted as its confirmation, the miss tick of the
\* same iteration done, and still a single DB record
C10_Witness ==
  /\ mpc = "read"
  /\ db_log = <<pack_record(FALSE)>>
  /\ metrics["db_writes_total"] = 1
  /\ metrics["counter_increments_total"] = 1
  /\ metrics["counter_confirm_total"] = 1
  /\ pending_pack_ts = None
  /\ pending_miss = 0
  /\ miss_deadline_ts = None

\* the miss records among the DB writes
MissWrites(log) == {i \in DOMAIN log : log[i].src = "miss"}

\* C11: miss scenario.  With the worker enabled and a DB writer attached,
\* one increment of the bound counter's total observed while no pack is
\* pending yields exactly one synthetic record (when its query can be built
\* and the writer accepts it), written by a miss tick whose `now` is at
\* least counter_miss_timeout after the `now` of the observation, with
\* on_error = TRUE and error_info = miss_error_label; no miss record is
\* written without an increment counted in pending_miss.
C11_MissScenario ==
  [][/\ pending_miss' > pending_miss =>
          /\ now <= clock
          /\ miss_deadline_ts' = Some(now + mcfg.counter_miss_timeout)
     /\ MissWrites(db_log') # MissWrites(db_log) =>
          /\ mcfg.enabled /\ mcfg.db_writer
          /\ miss_deadline_ts # None
          /\ now >= miss_deadline_ts[1]
          /\ clock >= miss_deadline_ts[1]
          /\ Cardinality(MissWrites(db_log')) - Cardinality(MissWrites(db_log))
               <= pending_miss - pending_miss'
          /\ \A i \in MissWrites(db_log') :
               /\ db_log'[i].on_error
               /\ db_log'[i].error_info = "miss_error_label"
     /\ ( /\ metrics'["counter_increments_total"] = 1
          /\ metrics'["counter_confirm_total"] = 0 )
        => /\ Cardinality(MissWrites(db_log')) <= 1
           /\ ( /\ mcfg.enabled /\ mcfg.db_writer
                /\ pending_miss' = 0
                /\ mpc' # "dead"
                /\ metrics'["db_write_fail_total"] = 0 )
              => Cardinality(MissWrites(db_log')) = 1]_vars

\* the miss scenario has run: a single increment was observed with no pack
\* pending, the timeout has passed and the DB holds the one miss record
C11_Witness ==
  /\ metrics["counter_increments_total"] = 1
  /\ metrics["counter_confirm_total"] = 0
  /\ metrics["packs_miss_total"] = 1
  /\ db_log = <<miss_record>>
  /\ pending_miss = 0
  /\ miss_deadline_ts = None
  /\ clock >= mcfg.counter_miss_timeout

\* the (connection, device) pair the worker is configured with
BoundKey == <<mcfg.counter_connection_id, mcfg.counter_device_id>>

\* the mbox worker's reconciliation state, metrics and DB writes
ReconState == <<mpc, now, counter_last_total, pending_pack_ts,
                miss_deadline_ts, pending_miss, last_good_vars, metrics,
                db_log>>

\* C12: binding.  The totals published for any (connection, device) pair
\* other than the configured one have no effect on the worker: publishing
\* one changes nothing of the reconciliation state, metrics and DB writes,
\* and what _tick_counter_logic does is a function of the worker's own state
\* and of the configured pair's total alone (so two runs that differ only in
\* the other pairs' totals stay identical step by step).
C12_Binding ==
  [][/\ (nevents' # nevents) =>
          \A k \in CounterConns, d \in DeviceIds, v \in 0..MaxTotal :
            (<<k, d>> # BoundKey /\ counter_publish(k, d, v))
              => UNCHANGED ReconState
     /\ tick_counter_logic =>
          LET b == IF mcfg.ext_counter THEN totals[BoundKey] ELSE None
              positive == /\ b # None
                          /\ counter_last_total # None
                          /\ b[1] > counter_last_total[1]
          IN /\ counter_last_total' =
                  IF b # None /\ (counter_last_total = None \/ positive)
                    THEN b ELSE counter_last_total
             /\ ~positive => UNCHANGED <<pending_pack_ts, miss_deadline_ts,
                                         pending_miss, metrics>>
             /\ positive =>
                  /\ metrics'["counter_increments_total"] =
                       metrics["counter_increments_total"]
                         + (b[1] - counter_last_total[1])
                  /\ pending_miss' \in
                       {pending_miss,
                        pending_miss + (b[1] - counter_last_total[1])}
             /\ UNCHANGED <<db_log, last_good_vars>>]_vars

\* another pair's total was published and raised above the configured
\* pair's, the counter tick has run since the baseline, and the worker has
\* counted nothing and written nothing
C12_Witness ==
  /\ mcfg.ext_counter
  /\ mpc = "read"
  /\ counter_last_total # None
  /\ counter_last_total = totals[BoundKey]
  /\ \E key \in CounterKeys \ {BoundKey} :
       /\ totals[key] # None
       /\ totals[key][1] > counter_last_total[1]
  /\ metrics["counter_increments_total"] = 0
  /\ pending_miss = 0
  /\ db_log = << >>

\* C13: a template / missing-variable error of build_query is caught and
\* logged on every path and never takes the mbox run loop out of its while
\* loop into the top-level handler (state ERROR): the loop is never left
\* through an exception of the miss-insert path.
C13_TemplateErrorKeepsWorker == mpc # "dead"

\* ------------------------------------------------------ data path claims

C16_DeviceFailureClosesHandle ==
  [][/\ \A n \in 0..MaxTicks :
          read_serial(W1, "SerialException", n) =>
            /\ metrics'["errors_total"] = metrics["errors_total"] + 1
            /\ ~device'[W1]
     /\ \A flush_ok \in BOOLEAN, outs \in [DeviceIds -> PollOuts] :
          ( /\ counter_poll_once(W1, flush_ok, outs)
            /\ \E d \in DeviceIds : outs[d] = <<"write_error">> ) =>
            /\ metrics'["errors_total"] > metrics["errors_total"]
            /\ ~device'[W1]
     /\ \A wo \in BOOLEAN :
          ( /\ modbus_poll_once(W1, [n \in PVarNames |-> None], wo)
            /\ device[W1] ) =>
            /\ metrics'["errors_total"] > metrics["errors_total"]
            /\ ~device'[W1]]_vars

\* -------------------------------------------------------- waits and close

\* C17: in every variant a reconnect backoff wait or a poll_interval wait
\* that is in progress when stop has been requested ends on the request
\* with the loop left (break), never by the interval running out and the
\* loop going round again.
C17_WaitsStopInterruptible ==
  [][\A w \in WorkerObjs :
       /\ (loop_backoff(w) /\ stop_event[w]) => pc'[w] = "exit"
       /\ (loop_wait(w) /\ stop_event[w]) => pc'[w] = "exit"]_vars

\* C18: once the run loop of a worker has exited, or the worker has been
\* removed from the registry by unregister_connection(id), its device
\* handle is closed and its DB writer, when it has one, has been closed: in
\* every variant, for a worker that was never started too.
C18_ReleasedAfterExitOrUnregister ==
  [][/\ \A w \in WorkerObjs :
          pc'[w] = "done" => (~device'[w] /\ writer'[w] # "open")
     /\ \A c \in Callers, id \in Ids :
          (unregister_connection(c, id) /\ workers[id] # NoWorker) =>
            /\ ~device'[workers[id]]
            /\ writer'[workers[id]] # "open"]_vars

\* ------------------------------------------------------------ API claims
\* C19: an update (PUT) that has got past the settings stops the old worker
\* of the id and removes it from the registry, which does not return it
\* again; when the request has returned, the id holds a new worker built
\* from the updated config, and that worker has been started if and only if
\* the state read before the update was RUNNING or the updated config has
\* autostart set.
C19_UpdateReplacesWorker ==
  \A c \in Callers :
    /\ (put[c].stage \in {"register", "decide", "starting", "done"}
          /\ put[c].old # NoWorker) =>
         /\ got_stop[put[c].old]
         /\ stop_event[put[c].old]
         /\ workers[put[c].id] # put[c].old
    /\ put[c].stage = "done" =>
         /\ put[c].new \notin {NoWorker, put[c].old}
         /\ workers[put[c].id] = put[c].new
         /\ kind[put[c].new] = put[c].cfg.type
         /\ autoconnect[put[c].new] = put[c].cfg.ac
         /\ (runs_total[put[c].new] = 1) <=>
              (put[c].prev = "RUNNING" \/ put[c].auto)
         /\ (runs_total[put[c].new] = 0) <=>
              ~(put[c].prev = "RUNNING" \/ put[c].auto)
         /\ runs_total[put[c].new] = 0 => state[put[c].new] = "CREATED"

\* a PUT without autostart has returned after replacing a worker that was
\* RUNNING, and the new worker has been started
C19_Witness ==
  \E c \in Callers :
    /\ put[c].stage = "done"
    /\ put[c].old # NoWorker
    /\ put[c].prev = "RUNNING"
    /\ ~put[c].auto
    /\ workers[put[c].id] = put[c].new
    /\ runs_total[put[c].new] = 1

\* --------------------------------------------------------- framer claims
\* C20: for both framers, every byte string and every split of it into a
\* and b, feed(a) followed by feed(b) on a fresh framer returns the frames
\* that feed(data) returns on another fresh framer.  When the string is
\* some bytes, the first start marker, a payload and the first terminator
\* after it, the whole feed returns the payload alone (the bytes before the
\* frame are dropped), and a split inside the frame returns nothing on
\* feed(a), keeps the frame's bytes in the buffer, and returns the payload
\* on feed(b).
C20_FramerPurity ==
  LET S == IF fcfg.cls = "mbox" THEN <<STX, DOLLAR>>
           ELSE IF fcfg.preamble = None THEN << >> ELSE fcfg.preamble[1]
      T == fcfg.terminator
      OneFrame(i) ==
        /\ IF S = << >> THEN i = 0 ELSE find(fdata, S, 1) = i + 1
        /\ Len(fdata) >= i + Len(S) + Len(T)
        /\ find(fdata, T, i + Len(S) + 1) = Len(fdata) - Len(T) + 1
      P(i) == SubSeq(fdata, i + Len(S) + 1, Len(fdata) - Len(T))
  IN /\ fdone = 3 => fout["split"] = fout["whole"]
     /\ \A i \in 0..Len(fdata) :
          OneFrame(i) =>
            /\ fdone = 3 => fout["whole"] = <<P(i)>>
            /\ (fdone = 1 /\ fcut >= i + Len(S) /\ fcut < Len(fdata)) =>
                 /\ fout["split"] = << >>
                 /\ fbuf["split"] = SubSeq(fdata, i + 1, fcut)
            /\ fdone >= 2 =>
                 /\ fout["split"] = <<P(i)>>
                 /\ fbuf["split"] = << >>

\* the three feeds have returned for a string of some bytes before a frame
\* with a payload, split inside the frame
C20_Witness ==
  /\ fdone = 3
  /\ fout["split"] # << >>
  /\ fout["split"][1] # << >>
  /\ fout["whole"] = fout["split"]
  /\ \E i \in 1..(Len(fdata) - 1) :
       /\ fdata[i + 1] = STX
       /\ STX \notin {fdata[j] : j \in 1..i}
       /\ fcut > i + 2
       /\ fcut < Len(fdata)

\* C21: with a preamble configured, whenever the easy-serial framer's buffer
\* holds no occurrence of the preamble after a feed, it holds at most
\* len(preamble)-1 bytes, for a preamble of any length from one byte on.
C21_PreambleBufferBound ==
  \A f \in Framers :
    (fcfg.cls = "easy_serial" /\ fcfg.preamble # None
       /\ find(fbuf[f], fcfg.preamble[1], 1) = 0) =>
      Len(fbuf[f]) <= Len(fcfg.preamble[1]) - 1

\* C22: when the stream is some bytes, one valid frame (the preamble, a
\* length byte L and 4+L bytes in total) and some more bytes, and holds that
\* frame at no other place, then once the whole stream has been fed, in
\* chunks of any sizes, the counter framer has returned that frame exactly
\* once.
C22_FrameReturnedOnce ==
  \A i \in 0..Len(fdata) :
    LET flen == IF i + 2 <= Len(fdata) THEN 4 + fdata[i + 2] ELSE 0
        F == SubSeq(fdata, i + 1, i + flen)
    IN (/\ fcfg.cls = "mbox_counter"
        /\ fpos["split"] = Len(fdata)
        /\ i + 2 <= Len(fdata)
        /\ fdata[i + 1] = PREAMBLE
        /\ i + flen <= Len(fdata)
        /\ \A j \in 0..(Len(fdata) - flen) :
             SubSeq(fdata, j + 1, j + flen) = F => j = i) =>
         Cardinality({k \in 1..Len(fout["split"]) : fout["split"][k] = F}) = 1

\* --------------------------------------------------------- counter claims
\* C23: in the counter worker a total changes only in a step of a device's
\* poll that handles a frame passing every check of parse_response_frame and
\* carrying that device's serial, and it becomes that frame's total_count; a
\* frame with a defect or another serial changes no total, keeps the poll
\* at its device and leaves the worker's state alone; once the deadline of
\* a poll has expired its next step counts exactly one timeout and goes on
\* to the next device (or the wait) with the state unchanged.
C23_TotalsOnlyFromOwnValidFrame ==
  [][/\ totals' # totals =>
          /\ pc[W1] = "tick" /\ polling.sent
          /\ polling'.frame.defect = "none"
          /\ polling'.frame.serial = DevSerial[PolledDevices[polling.dev]]
          /\ totals' = [totals EXCEPT
                          ![<<PolledConn, PolledDevices[polling.dev]>>] =
                            Some(polling'.frame.total)]
     /\ (/\ nevents' # nevents
         /\ polling'.frame # NoFrame
         /\ \/ polling'.frame.defect # "none"
            \/ polling'.frame.serial # DevSerial[PolledDevices[polling.dev]]) =>
          /\ totals' = totals
          /\ polling'.dev = polling.dev
          /\ state' = state /\ failed' = failed /\ pc' = pc
     /\ (polling.sent /\ clock >= polling.deadline /\ polling' # polling) =>
          /\ metrics'["timeouts_total"] = metrics["timeouts_total"] + 1
          /\ polling'.dev = IF polling.dev = Len(PolledDevices) THEN 0
                            ELSE polling.dev + 1
          /\ pc'[W1] \in {"tick", "wait"}
          /\ state' = state /\ failed' = failed /\ totals' = totals
     /\ metrics'["timeouts_total"] # metrics["timeouts_total"] =>
          /\ polling.sent /\ (clock >= polling.deadline \/ stop_event[W1])
          /\ metrics'["timeouts_total"] = metrics["timeouts_total"] + 1
    ]_vars

\* a malformed frame was skipped, the first device's own frame was then
\* accepted, and the poll of the second device ran into its deadline
C23_Witness ==
  /\ totals[<<PolledConn, 1>>] # None
  /\ totals[<<PolledConn, 2>>] = None
  /\ metrics["timeouts_total"] = 1
  /\ metrics["parse_fail_total"] = 2
  /\ state[W1] = "RUNNING"
  /\ pc[W1] = "wait"

C26_StoreIdsAndNamesDistinct ==
  [][/\ \A i \in 1..Len(store'), j \in 1..Len(store') :
          i # j => /\ store'[i].id # store'[j].id
                   /\ store'[i].name # store'[j].name
     /\ \A connection \in StoreConns :
          ( /\ upsert_connection(connection)
            /\ \E i \in 1..Len(store) :
                 /\ store[i].name = connection.name
                 /\ store[i].id # connection.id ) =>
            /\ sresult' = "ConnectionNameAlreadyExistsError"
            /\ store' = store]_vars

\* two connections are stored, the first one created has been deleted, and
\* the last upsert was refused for its name
C26_Witness ==
  /\ Len(store) = 2
  /\ \A i \in 1..Len(store) : store[i].id # 1
  /\ sresult = "ConnectionNameAlreadyExistsError"

\* ------------------------------------------------------- mbox metric claims
\* C27: in the mbox worker, after every step of the loop packs_total equals
\* db_writes_total, the number of records the DB writer accepted, and equals
\* packs_clean_total + packs_miss_total; and counter_increments_total grows
\* in a step by exactly the positive difference between the total read from
\* the bound counter and the last total, when the step is a counter tick
\* that sees one, and by nothing in any other step.
C27_PackMetricsAgree ==
  [][/\ metrics'["packs_total"] = metrics'["db_writes_total"]
     /\ metrics'["packs_total"] = Len(db_log')
     /\ metrics'["packs_total"] =
          metrics'["packs_clean_total"] + metrics'["packs_miss_total"]
     /\ metrics'["packs_clean_total"] =
          Cardinality({i \in 1..Len(db_log') : db_log'[i].src = "pack"})
     /\ metrics'["counter_increments_total"] =
          metrics["counter_increments_total"]
            + (IF /\ mpc = "counter" /\ mpc' = "miss"
                  /\ mcfg.ext_counter
                  /\ counter_last_total # None
                  /\ totals[<<mcfg.counter_connection_id,
                              mcfg.counter_device_id>>] # None
                  /\ totals[<<mcfg.counter_connection_id,
                              mcfg.counter_device_id>>][1]
                       > counter_last_total[1]
                 THEN totals[<<mcfg.counter_connection_id,
                               mcfg.counter_device_id>>][1]
                        - counter_last_total[1]
                 ELSE 0)]_vars

\* a pack was written and confirmed by the counter, and a miss record was
\* inserted for an increment that came without a pack
C27_Witness ==
  /\ metrics["packs_total"] = 2
  /\ metrics["packs_clean_total"] = 1
  /\ metrics["packs_miss_total"] = 1
  /\ metrics["counter_increments_total"] >= 1
  /\ mpc = "top"

C29_CompileIdempotent ==
  (qt.once # None /\ qt.once[1].ok /\ qt.twice # None) =>
    /\ qt.twice[1].ok
    /\ qt.twice[1].sql = qt.once[1].sql

\* C29: for every template that compiles and uses neither the "{{" nor the
\* "}}" escape, the SQL that came out holds no brace, compiles again, yields
\* the same SQL and names no parameter.
C29_CompileIdempotentWithoutEscapes ==
  ( /\ qt.once # None /\ qt.once[1].ok /\ qt.twice # None
    /\ find(qt.template, <<"{", "{">>, 1) = 0
    /\ find(qt.template, <<"}", "}">>, 1) = 0 ) =>
    /\ \A k \in 1..Len(qt.once[1].sql) : qt.once[1].sql[k] \notin {"{", "}"}
    /\ qt.twice[1].ok
    /\ qt.twice[1].sql = qt.once[1].sql
    /\ qt.twice[1].param_names = {}

\* the template "{a} 1" was compiled to ":a 1", which compiled again to
\* itself
C29_Witness ==
  /\ qt.template = <<"{", "a", "}", " ", "1">>
  /\ qt.once # None /\ qt.once[1].ok
  /\ qt.once[1].sql = <<":", "a", " ", "1">>
  /\ qt.once[1].param_names = {<<"a">>}
  /\ qt.twice # None /\ qt.twice[1].ok
  /\ qt.twice[1].sql = qt.once[1].sql

\* ------------------------------------------------------ counter tick claims
\* C30: a counter tick of the mbox worker that reads no total, or a total
\* not above the last one, changes no variable of the worker but its place
\* in the loop; the tick that reads the first total only sets
\* counter_last_total to it, with the pending pack, the pending misses, the
\* deadline, the metrics and the written records unchanged; and in no step
\* does counter_last_total decrease or go back to None.
C30_NoDeltaOnlyBaseline ==
  [][LET bound == <<mcfg.counter_connection_id, mcfg.counter_device_id>>
         total == IF mcfg.ext_counter THEN totals[bound] ELSE None
         tick == mpc = "counter" /\ mpc' = "miss"
     IN /\ (tick /\ total # None /\ counter_last_total = None) =>
             /\ counter_last_total' = total
             /\ UNCHANGED <<pending_pack_ts, pending_miss, miss_deadline_ts,
                            metrics, db_log, last_good_vars>>
        /\ ( /\ tick
             /\ \/ total = None
                \/ /\ counter_last_total # None
                   /\ total[1] <= counter_last_total[1] ) =>
             UNCHANGED <<counter_last_total, pending_pack_ts, pending_miss,
                         miss_deadline_ts, metrics, db_log, last_good_vars>>
        /\ counter_last_total # None =>
             /\ counter_last_total' # None
             /\ counter_last_total'[1] >= counter_last_total[1]]_vars

\* the counter shows 0, below the baseline 1 taken earlier; the worker is
\* past a counter tick, the baseline is still 1, and nothing is pending or
\* counted
C30_Witness ==
  /\ mcfg.ext_counter
  /\ totals[<<mcfg.counter_connection_id, mcfg.counter_device_id>>] = Some(0)
  /\ counter_last_total = Some(1)
  /\ now = clock
  /\ mpc = "miss"
  /\ pending_miss = 0
  /\ miss_deadline_ts = None
  /\ metrics["counter_increments_total"] = 0

\* C31: the clean window has no expiry.  A pending pack (_pending_pack_ts
\* set by a parsed frame) is cleared by one step only: a _tick_counter_logic
\* that observes a positive increment of the bound counter; clock ticks,
\* other loop steps, ticks without an increment and further frames leave it
\* set.  An increment observed when the deadline has already passed
\* (now >= _pending_pack_ts) is still a confirmation: counter_confirm_total
\* grows by one and no miss is counted or scheduled.
C31_CleanWindowNeverExpires ==
  [][/\ (pending_pack_ts # None /\ pending_pack_ts' = None)
        => /\ mpc = "counter" /\ mpc' = "miss"
           /\ read_counter_total # None
           /\ counter_last_total # None
           /\ read_counter_total[1] > counter_last_total[1]
     /\ ( /\ mpc = "counter" /\ mpc' = "miss"
          /\ pending_pack_ts # None
          /\ now >= pending_pack_ts[1]
          /\ read_counter_total # None
          /\ counter_last_total # None
          /\ read_counter_total[1] > counter_last_total[1] )
        => /\ pending_pack_ts' = None
           /\ metrics'["counter_confirm_total"] =
                metrics["counter_confirm_total"] + 1
           /\ pending_miss' = pending_miss
           /\ miss_deadline_ts' = miss_deadline_ts]_vars

\* a late confirmation has happened: with counter_clean_timeout = 1 the only
\* frame was parsed at time 0 (its DB write failed then, which stamped
\* last_db_error_at), so its deadline was 1; the iteration of time 2 saw the
\* only increment, counted it as the confirmation and scheduled no miss
C31_Witness ==
  /\ mcfg.counter_clean_timeout = 1
  /\ mpc = "miss"
  /\ now = 2
  /\ metrics["frames_total"] = 1
  /\ metrics["parse_ok_total"] = 1
  /\ metrics["db_write_fail_total"] = 1
  /\ metrics["last_db_error_at"] = Some(0)
  /\ metrics["counter_increments_total"] = 1
  /\ metrics["counter_confirm_total"] = 1
  /\ pending_pack_ts = None
  /\ pending_miss = 0
  /\ miss_deadline_ts = None

\* C32: the batch rule of _tick_miss_insert.  A miss tick taken when the miss
\* deadline is set and now >= deadline clears the deadline, takes
\* n = min(pending_miss, max(miss_insert_limit, 1)) out of pending_miss and
\* attempts exactly n inserts (n calls of _insert_miss_pack); a miss tick
\* before the deadline, or without one, changes nothing; pending_miss is
\* never negative.
C32_TickMissBatch ==
  [][/\ pending_miss >= 0 /\ pending_miss' >= 0
     /\ (mpc = "miss" /\ mpc' # "miss")
        => LET limit == IF mcfg.miss_insert_limit > 1
                          THEN mcfg.miss_insert_limit ELSE 1
               n == IF pending_miss < limit THEN pending_miss ELSE limit
           IN IF miss_deadline_ts # None /\ now >= miss_deadline_ts[1]
                THEN /\ miss_deadline_ts' = None
                     /\ pending_miss' = pending_miss - n
                     /\ miss_insert_calls(n) = n
                ELSE /\ miss_deadline_ts' = miss_deadline_ts
                     /\ pending_miss' = pending_miss
                     /\ metrics' = metrics
                     /\ db_log' = db_log]_vars

\* ---------------------------------------------------------- later claims
\* C33: restart starts the worker again.  When restart_connection has
\* returned, the worker of the id has a live run-loop thread and its state is
\* RUNNING, and stays so for as long as its run meets no device failure (no
\* failed open that ends the loop, no exception in the loop) -- also when
\* join(2.0) returned by timeout.
C33_RestartRuns ==
  \A c \in Callers :
    (put[c].stage = "restarted" /\ workers[put[c].id] # NoWorker) =>
      LET w == workers[put[c].id]
      IN (~failed[w] /\ ~open_exit[w])
           => (is_alive(w) /\ state[w] = "RUNNING")

\* C34: at most one run-loop thread per worker object is alive.  The thread
\* the model follows is the one self._thread names, so a second live thread
\* can only come from replacing self._thread while its thread is alive.
\* Under every interleaving of start(), stop(), join() and the loop's exit:
\* self._thread is replaced only by the holder of _thread_lock and only when
\* the thread it named has finished or never existed; a thread comes alive
\* only by the _thread.start() of that holder; and no two callers are
\* between the checks and the end of start() on the same worker.
C34_OneThreadPerWorker ==
  [][\A w \in WorkerObjs :
       /\ (pc'[w] = "new" /\ pc[w] # "new")
            => /\ ~is_alive(w)
               /\ thread_lock[w] # 0
               /\ cpc[thread_lock[w]] = "start_create"
       /\ (pc'[w] \in AlivePcs /\ ~is_alive(w))
            => /\ pc[w] = "new"
               /\ thread_lock[w] # 0
               /\ cpc[thread_lock[w]] = "start_run"
       /\ Cardinality({c \in Callers :
                         /\ cpc[c] \in {"start_create", "start_run"}
                         /\ cw[c] = w}) <= 1]_vars

\* a start() called after stop() has returned while the thread was still
\* alive: it created nothing (the state is STOPPING, so only the is_alive
\* check can have refused it), and the one thread of the worker goes on
C34_Witness ==
  /\ \A c \in Callers : cpc[c] = "idle"
  /\ ret = "start_noop"
  /\ state[W1] = "STOPPING"
  /\ stop_event[W1]
  /\ is_alive(W1)
  /\ runs_total[W1] = 1

\* C35: every unit of counter increment is accounted for exactly once.
\* counter_increments_total grows in _tick_counter_logic only, and what it
\* grows by in a tick is what that tick counts as confirmations plus what it
\* adds to pending_miss; no other step adds to any of the three, and a miss
\* tick only takes units out of pending_miss.  Hence in every state
\* counter_increments_total = confirmations + pending_miss + misses taken
\* out by _tick_miss_insert.
C35_IncrementsAccounted ==
  [][IF mpc = "counter" /\ mpc' = "miss"
       THEN metrics'["counter_increments_total"]
              - metrics["counter_increments_total"]
            = (metrics'["counter_confirm_total"]
                 - metrics["counter_confirm_total"])
              + (pending_miss' - pending_miss)
       ELSE /\ metrics'["counter_increments_total"] =
                 metrics["counter_increments_total"]
            /\ metrics'["counter_confirm_total"] =
                 metrics["counter_confirm_total"]
            /\ pending_miss' <= pending_miss]_vars

\* C36: label and counter in either order.  One pack gives one parsed label
\* frame and one counter increment.  Label first: the increment is its
\* confirmation and no miss is counted or written.  Counter first, the label
\* parsed less than counter_miss_timeout from the observation of the
\* increment (the times are those stored in _pending_pack_ts and
\* _miss_deadline_ts): no synthetic miss record is written for it.
C36_OrderIndependent ==
  [][/\ ( /\ metrics'["parse_ok_total"] = 1
          /\ metrics'["counter_increments_total"] = 1
          /\ metrics'["counter_confirm_total"] = 1 )
        => /\ pending_miss' = 0
           /\ MissWrites(db_log') = {}
     /\ ( /\ metrics["parse_ok_total"] = 1
          /\ metrics["counter_increments_total"] = 1
          /\ pending_pack_ts # None
          /\ miss_deadline_ts # None
          /\ LET label_at == pending_pack_ts[1] - mcfg.counter_clean_timeout
                 counter_at == miss_deadline_ts[1] - mcfg.counter_miss_timeout
             IN /\ label_at - counter_at < mcfg.counter_miss_timeout
                /\ counter_at - label_at < mcfg.counter_miss_timeout )
        => MissWrites(db_log') = MissWrites(db_log)]_vars

\* C37: every counted miss is eventually inserted.  While the worker keeps
\* running, enabled and with its DB writer, a counted miss has its deadline
\* set: pending_miss > 0 implies _miss_deadline_ts is set, so that
\* _tick_miss_insert takes it out when time has advanced, without a further
\* counter increment -- also when pending_miss exceeds miss_insert_limit.
C37_PendingMissHasDeadline ==
  (mcfg.enabled /\ mcfg.db_writer /\ mpc # "dead" /\ pending_miss > 0)
    => miss_deadline_ts # None

\* C38: no use after release.  Every write() a worker issues (accepted:
\* db_writes_total, or failed: db_write_fail_total) goes through a DB writer
\* on which close() has not been called -- also in a run started after
\* stop() and join() on the same worker object.
C38_NoWriteAfterClose ==
  [][(metrics'["db_writes_total"] + metrics'["db_write_fail_total"]
        > metrics["db_writes_total"] + metrics["db_write_fail_total"])
       => writer[W1] = "open"]_vars

\* C39: at most one run-loop thread per connection id.  When an update has
\* replaced the worker of an id, the thread of the old worker and the thread
\* of the new worker of that id are never alive together: the old one has
\* finished before the new one is started -- also when join(5.0) returned by
\* timeout.
C39_OneThreadPerId ==
  \A c \in Callers :
    (put[c].old # NoWorker /\ put[c].new # NoWorker
       /\ put[c].new # put[c].old)
      => ~(is_alive(put[c].old) /\ is_alive(put[c].new))

\* C40: concurrent settings writes are not lost.  When two calls of
\* upsert_connection for new connections with different names have both
\* saved, they were given different ids and the stored document holds a
\* connection under each of the two ids.
C40_ConcurrentCreatesKept ==
  \A c \in Callers, d \in Callers :
    ( /\ c # d
      /\ upsert[c].stage = "done" /\ upsert[c].create
      /\ upsert[d].stage = "done" /\ upsert[d].create
      /\ upsert[c].connection.name # upsert[d].connection.name )
    => /\ upsert[c].connection.id # upsert[d].connection.id
       /\ \E i \in 1..Len(store) : store[i].id = upsert[c].connection.id
       /\ \E i \in 1..Len(store) : store[i].id = upsert[d].connection.id

====
